---- MODULE Spec2Model ----
(***************************************************************************)
(* Block-model resolution of nbt-gltf-conversion: the three                *)
(* BlockModelLoader revisions kept in the repository                       *)
(* (src/blockmodelloader.js lines 1-299 and 300-566, src/unnamed/part_000) *)
(* and the EnhancedMockWorker mesh registry (src/enhancedmockworker.js),   *)
(* with the geometry baking of src/blockmodelrenderer.js, the scan of the  *)
(* world view (src/unnamed/part_003) and the message queue and the glTF    *)
(* export of src/index.js.                                                 *)
(*                                                                         *)
(* Conventions.  A JavaScript string is a sequence of tokens               *)
(* (<<"minecraft:", "block/", "lantern">> is "minecraft:block/lantern"),   *)
(* the empty sequence being both "" and an absent string property, which   *)
(* the code never tells apart (both are falsy).  A JavaScript object used  *)
(* as a map is a sequence of [k, v] records in insertion order, which is   *)
(* the order Object.entries walks it in.                                   *)
(***************************************************************************)
EXTENDS Integers, Sequences, FiniteSets, TLC

(***************************************************************************)
(* Strings as token sequences.                                             *)
(***************************************************************************)
NoStr == << >>

IsPrefixAt(s, i, pat) ==
  /\ i + Len(pat) - 1 <= Len(s)
  /\ \A j \in 1..Len(pat) : s[i + j - 1] = pat[j]

\* String.prototype.includes(pat)
Includes(s, pat) == \E i \in 1..Len(s) : IsPrefixAt(s, i, pat)

\* String.prototype.replace(pat, ''): the first occurrence only
ReplaceFirst(s, pat) ==
  IF Includes(s, pat)
  THEN LET i == CHOOSE x \in 1..Len(s) :
                  /\ IsPrefixAt(s, x, pat)
                  /\ \A y \in 1..(x - 1) : ~IsPrefixAt(s, y, pat)
       IN SubSeq(s, 1, i - 1) \o SubSeq(s, i + Len(pat), Len(s))
  ELSE s

\* String.prototype.replace(/^pat/, '')
StripPrefix(s, pat) ==
  IF Len(s) >= Len(pat) /\ IsPrefixAt(s, 1, pat)
  THEN SubSeq(s, Len(pat) + 1, Len(s))
  ELSE s

\* String.prototype.startsWith('#')
StartsWithHash(s) == Len(s) > 0 /\ s[1] = "#"

\* s.split('[')[0]: a bracketed state suffix is one token that starts a "[...]" part
IsBracket(tok) == tok \in {"[half=top]", "[x]"}

SplitBracket(s) ==
  IF \E i \in 1..Len(s) : IsBracket(s[i])
  THEN LET i == CHOOSE x \in 1..Len(s) :
                  IsBracket(s[x]) /\ \A y \in 1..(x - 1) : ~IsBracket(s[y])
       IN SubSeq(s, 1, i - 1)
  ELSE s

cleanTexturePath(path) ==
  IF path = NoStr THEN path
  ELSE StripPrefix(StripPrefix(StripPrefix(StripPrefix(
         ReplaceFirst(path, <<"minecraft:">>),
         <<"block/">>), <<"blocks/">>), <<"item/">>), <<"items/">>)

(***************************************************************************)
(* JavaScript objects as insertion-ordered maps.                           *)
(***************************************************************************)
EmptyObj == << >>

Keys(m) == {m[i].k : i \in 1..Len(m)}

Has(m, k) == k \in Keys(m)

Get(m, k) == m[CHOOSE i \in 1..Len(m) : m[i].k = k].v

\* m[k] = v: an existing key keeps its place, a new key goes last
Put(m, k, v) ==
  IF Has(m, k)
  THEN [i \in 1..Len(m) |-> IF m[i].k = k THEN [k |-> k, v |-> v] ELSE m[i]]
  ELSE Append(m, [k |-> k, v |-> v])

\* { ...a, ...b }
RECURSIVE Spread(_, _)
Spread(a, b) ==
  IF b = << >> THEN a
  ELSE Spread(Put(a, Head(b).k, Head(b).v), Tail(b))

(***************************************************************************)
(* Model definitions of blocks_models.json.                                *)
(*   texture value  [chars, s]: the string s, or (chars = TRUE) the object *)
(*                  {0: s[1], 1: s[2], ...} that Object.entries makes of s *)
(*   face           [uv, hasTexture, texture]; uv = << >> when absent,      *)
(*                  numbers in units of 1/UVUnit                           *)
(*   element        [id, faces, hasFaces, from, to]; from and to in the    *)
(*                  0..16 block space, << >> when absent                   *)
(*   model          [parent, hasTextures, textures, hasElements, elements] *)
(***************************************************************************)
Lit(s) == [chars |-> FALSE, s |-> s]

CharsOf(s) == [chars |-> TRUE, s |-> s]

\* JavaScript truthiness of a texture value: every object, every non-empty string
Truthy(v) == v.chars \/ v.s # NoStr

\* 16 is written 16 * UVUnit, so that three divisions by 16 stay exact
UVUnit == 16 * 16 * 16

NoModel == [parent |-> NoStr, hasTextures |-> FALSE, textures |-> EmptyObj,
            hasElements |-> FALSE, elements |-> << >>]

Model(parent, tex, els) ==
  [parent |-> parent, hasTextures |-> tex.has, textures |-> tex.m,
   hasElements |-> els.has, elements |-> els.l]

\* the elements property of a model: absent, or a list
ElementsOf(m) == [has |-> m.hasElements, l |-> m.elements]

TexturesOrEmpty(m) == IF m.hasTextures THEN m.textures ELSE EmptyObj

(***************************************************************************)
(* mergeModels, src/blockmodelloader.js 265-287: the child is `target`,    *)
(* the processed parent is `source`.                                       *)
(***************************************************************************)
\* the spread the other way round: the parent's slots win
mergeModelsParentWins(target, source) ==
  LET withTex == IF source.hasTextures
                 THEN [target EXCEPT !.hasTextures = TRUE,
                                     !.textures = Spread(TexturesOrEmpty(target), source.textures)]
                 ELSE target
  IN IF source.hasElements /\ ~withTex.hasElements
     THEN [withTex EXCEPT !.hasElements = TRUE, !.elements = source.elements]
     ELSE withTex

mergeModels(target, source) ==
  LET withTex == IF source.hasTextures
                 THEN [target EXCEPT !.hasTextures = TRUE,
                                     !.textures = Spread(source.textures, TexturesOrEmpty(target))]
                 ELSE target
  IN IF source.hasElements /\ ~withTex.hasElements
     THEN [withTex EXCEPT !.hasElements = TRUE, !.elements = source.elements]
     ELSE withTex

(***************************************************************************)
(* mergeModels, src/blockmodelloader.js 549-563.                           *)
(***************************************************************************)
mergeModels2(parent, child) ==
  [parent |-> IF child.parent # NoStr THEN child.parent ELSE parent.parent,
   hasTextures |-> TRUE,
   textures |-> Spread(TexturesOrEmpty(parent), TexturesOrEmpty(child)),
   hasElements |-> parent.hasElements \/ child.hasElements,
   elements |-> IF parent.hasElements /\ child.hasElements
                THEN parent.elements \o child.elements
                ELSE IF child.hasElements THEN child.elements ELSE parent.elements]

(***************************************************************************)
(* mergeModels, src/unnamed/part_000 85-105.                               *)
(***************************************************************************)
RECURSIVE MergeTextures3(_, _, _)
MergeTextures3(acc, rest, childTextures) ==
  IF rest = << >> THEN acc
  ELSE LET key == Head(rest).k
           value == Head(rest).v
           ref == Tail(value.s)
           next == IF StartsWithHash(value.s)
                   THEN IF Has(acc, ref) /\ Truthy(Get(acc, ref)) THEN Get(acc, ref)
                        ELSE IF Has(childTextures, ref) /\ Truthy(Get(childTextures, ref))
                             THEN Get(childTextures, ref)
                             ELSE value
                   ELSE value
       IN MergeTextures3(Put(acc, key, next), Tail(rest), childTextures)

mergeModels3(parent, child) ==
  [parent |-> parent.parent,
   hasTextures |-> TRUE,
   textures |-> MergeTextures3(TexturesOrEmpty(parent), TexturesOrEmpty(child),
                               TexturesOrEmpty(child)),
   hasElements |-> child.hasElements \/ parent.hasElements,
   elements |-> IF child.hasElements THEN child.elements ELSE parent.elements]

(***************************************************************************)
(* The texture map built by loadBlockModels from blocks_textures.json,     *)
(* src/blockmodelloader.js 38-57 (and 337-357): every spelling of an       *)
(* entry's name maps to entry.texture.                                     *)
(***************************************************************************)
IsDir(tok) == tok \in {"block/", "blocks/", "item/", "items/"}

\* s.split('/').pop()
LastSegment(s) ==
  IF \E i \in 1..Len(s) : IsDir(s[i])
  THEN LET i == CHOOSE x \in 1..Len(s) :
                  IsDir(s[x]) /\ \A y \in (x + 1)..Len(s) : ~IsDir(s[y])
       IN SubSeq(s, i + 1, Len(s))
  ELSE s

NameVariants(entry) ==
  LET cleanName == cleanTexturePath(entry.name)
      cleanTexture == cleanTexturePath(entry.texture)
  IN << cleanName, <<"block/">> \o cleanName, <<"minecraft:", "block/">> \o cleanName,
        cleanTexture, LastSegment(cleanTexture), entry.texture >>

RECURSIVE SetAll(_, _, _)
SetAll(map, variants, texture) ==
  IF variants = << >> THEN map
  ELSE SetAll(IF Head(variants) # NoStr THEN Put(map, Head(variants), texture) ELSE map,
              Tail(variants), texture)

RECURSIVE BuildTextureMap(_, _)
BuildTextureMap(map, texturesData) ==
  IF texturesData = << >> THEN map
  ELSE LET entry == Head(texturesData)
       IN BuildTextureMap(IF entry.texture # NoStr
                          THEN SetAll(map, NameVariants(entry), entry.texture)
                          ELSE map,
                          Tail(texturesData))

(***************************************************************************)
(* resolveTextureReferences, src/blockmodelloader.js 508-538.  The inner   *)
(* resolveReference calls itself once per `#slot` hop; `seen` is one set   *)
(* for the whole call, shared by all slots.  A call deeper than StackLimit *)
(* frames is the engine's RangeError, the only error the function can     *)
(* end in: it has no throw of its own.                                     *)
(***************************************************************************)
StackLimit == 8

\* resolveReference without the seen.has(value) guard
RECURSIVE resolveReferenceNoSeen(_, _, _, _, _)
resolveReferenceNoSeen(textures, textureMap, value, seen, depth) ==
  IF depth > StackLimit
  THEN [v |-> value, seen |-> seen, hops |-> depth, error |-> "RangeError"]
  ELSE IF ~Truthy(value)
  THEN [v |-> value, seen |-> seen, hops |-> depth, error |-> "none"]
  ELSE IF StartsWithHash(value.s)
  THEN LET referencedKey == Tail(value.s)
       IN IF Has(textures, referencedKey) /\ Truthy(Get(textures, referencedKey))
          THEN resolveReferenceNoSeen(textures, textureMap, Get(textures, referencedKey),
                                      seen \cup {value}, depth + 1)
          ELSE [v |-> value, seen |-> seen \cup {value}, hops |-> depth,
                error |-> "none"]
  ELSE LET cleanPath == cleanTexturePath(value.s)
       IN [v |-> IF Has(textureMap, cleanPath)
                 THEN Lit(Get(textureMap, cleanPath))
                 ELSE Lit(cleanPath),
           seen |-> seen \cup {value}, hops |-> depth, error |-> "none"]

RECURSIVE resolveReference(_, _, _, _, _)
resolveReference(textures, textureMap, value, seen, depth) ==
  IF depth > StackLimit
  THEN [v |-> value, seen |-> seen, hops |-> depth, error |-> "RangeError"]
  ELSE IF ~Truthy(value) \/ value \in seen
  THEN [v |-> value, seen |-> seen, hops |-> depth, error |-> "none"]
  ELSE IF StartsWithHash(value.s)
  THEN LET referencedKey == Tail(value.s)
       IN IF Has(textures, referencedKey) /\ Truthy(Get(textures, referencedKey))
          THEN resolveReference(textures, textureMap, Get(textures, referencedKey),
                                seen \cup {value}, depth + 1)
          ELSE [v |-> value, seen |-> seen \cup {value}, hops |-> depth,
                error |-> "none"]
  ELSE LET cleanPath == cleanTexturePath(value.s)
       IN [v |-> IF Has(textureMap, cleanPath)
                 THEN Lit(Get(textureMap, cleanPath))
                 ELSE Lit(cleanPath),
           seen |-> seen \cup {value}, hops |-> depth, error |-> "none"]

\* one turn of the loop at 533-535: the slot at position i
ResolveSlot(textures, textureMap, i, st) ==
  LET r == resolveReference(textures, textureMap, textures[i].v, st.seen, 1)
  IN [resolved |-> Put(st.resolved, textures[i].k, r.v),
      seen |-> r.seen,
      maxHops |-> IF r.hops > st.maxHops THEN r.hops ELSE st.maxHops,
      error |-> IF st.error # "none" THEN st.error ELSE r.error]

ResolveStart == [resolved |-> EmptyObj, seen |-> {}, maxHops |-> 0, error |-> "none"]

RECURSIVE ResolveFrom(_, _, _, _)
ResolveFrom(textures, textureMap, i, st) ==
  IF i > Len(textures) THEN st
  ELSE ResolveFrom(textures, textureMap, i + 1, ResolveSlot(textures, textureMap, i, st))

resolveTextureReferences(textures, textureMap) ==
  ResolveFrom(textures, textureMap, 1, ResolveStart)

(***************************************************************************)
(* resolveTextureReferences, src/blockmodelloader.js 231-263, as its two   *)
(* callers use it (226 and 215): the argument is ONE texture value, not    *)
(* the map.  Object.entries of a string yields its characters, none of     *)
(* which is a slot of the "map" the string is taken for, so each comes     *)
(* back as it is (no character is a key of the texture map): the result    *)
(* is the object of the string's characters.  Of such an object the        *)
(* result is an equal object.                                              *)
(***************************************************************************)
resolveTextureReferences1(value) == CharsOf(value.s)

\* resolveTextures, src/blockmodelloader.js 223-229
resolveTextures(textures) ==
  [i \in 1..Len(textures) |->
     [k |-> textures[i].k, v |-> resolveTextureReferences1(textures[i].v)]]

(***************************************************************************)
(* Results of a getModel call: a model, null, a thrown error, or (the      *)
(* while loop of part_000) no return at all.                               *)
(***************************************************************************)
NoRotation == [has |-> FALSE, x |-> 0, y |-> 0]

Ok(m) == [status |-> "ok", model |-> m, rotation |-> NoRotation]

Null == [status |-> "null", model |-> NoModel, rotation |-> NoRotation]

Thrown(e) == [status |-> e, model |-> NoModel, rotation |-> NoRotation]

\* the first of the patterns that names a model of the catalog, else << >>
RECURSIVE FirstFound(_, _)
FirstFound(blockModels, patterns) ==
  IF patterns = << >> THEN NoStr
  ELSE IF Has(blockModels, Head(patterns)) THEN Head(patterns)
  ELSE FirstFound(blockModels, Tail(patterns))

(***************************************************************************)
(* processElement, src/blockmodelloader.js 191-221.  A face's uv is        *)
(* divided by 16; its texture goes through resolveTextureReferences, which *)
(* throws a TypeError (Object.entries of undefined) when the face has no   *)
(* texture.                                                                *)
(***************************************************************************)
processFace(data) ==
  [uv |-> [i \in 1..Len(data.uv) |-> data.uv[i] \div 16],
   hasTexture |-> TRUE,
   texture |-> resolveTextureReferences1(data.texture)]

processElement(element) ==
  [element EXCEPT !.faces =
     [i \in 1..Len(element.faces) |->
        [k |-> element.faces[i].k, v |-> processFace(element.faces[i].v)]]]

ElementThrows(element) ==
  \E i \in 1..Len(element.faces) : ~element.faces[i].v.hasTexture

(***************************************************************************)
(* processModel, src/blockmodelloader.js 145-189: the parent is processed  *)
(* by a recursive call, one stack frame per level of the chain.            *)
(***************************************************************************)
ParentPatterns(parent) ==
  << parent,
     ReplaceFirst(parent, <<"minecraft:">>),
     <<"block/">> \o ReplaceFirst(parent, <<"minecraft:">>),
     ReplaceFirst(parent, <<"block/">>) >>

\* textures and elements of a model whose parent has been merged in (177-188)
FinishModel(m) ==
  IF m.hasElements /\ \E i \in 1..Len(m.elements) : ElementThrows(m.elements[i])
  THEN Thrown("TypeError")
  ELSE Ok([m EXCEPT !.hasTextures = TRUE,
                    !.textures = resolveTextures(TexturesOrEmpty(m)),
                    !.elements = [i \in 1..Len(m.elements) |->
                                    processElement(m.elements[i])]])

RECURSIVE processModel(_, _, _)

\* the pattern that finds the parent, << >> for no parent or none found (161-169)
FoundParent(blockModels, model) ==
  IF model.parent = NoStr THEN NoStr
  ELSE FirstFound(blockModels, ParentPatterns(model.parent))

\* this.mergeModels(processed, processedParent) and the rest of processModel
MergedInto(model, processedParent) ==
  IF processedParent.status # "ok" THEN processedParent
  ELSE FinishModel(mergeModels(model, processedParent.model))

processModelWith(blockModels, model, depth, foundPattern) ==
  IF foundPattern = NoStr THEN FinishModel(model)
  ELSE MergedInto(model,
                  processModel(blockModels, Get(blockModels, foundPattern), depth + 1))

processModel(blockModels, model, depth) ==
  IF depth > StackLimit THEN Thrown("RangeError")
  ELSE processModelWith(blockModels, model, depth, FoundParent(blockModels, model))

(***************************************************************************)
(* getModel, src/blockmodelloader.js 72-143.  blockState is the property   *)
(* object as the sequence of its "key=value" entries in insertion order.   *)
(***************************************************************************)
RECURSIVE Join(_, _)
Join(parts, sep) ==
  IF parts = << >> THEN NoStr
  ELSE IF Len(parts) = 1 THEN <<Head(parts)>>
  ELSE <<Head(parts), sep>> \o Join(Tail(parts), sep)

\* `${modelKey}:${JSON.stringify(blockState)}`
CacheKey(blockName, blockState) ==
  cleanTexturePath(SplitBracket(blockName)) \o <<":">> \o blockState

NoVariant == [model |-> NoStr, x |-> 0, y |-> 0]

\* variants[stateString] || variants['']
SelectVariant(variants, stateString) ==
  IF Has(variants, stateString) THEN Get(variants, stateString)
  ELSE IF Has(variants, NoStr) THEN Get(variants, NoStr)
  ELSE NoVariant

\* the name with the three spellings getModel tries for the variant's model
VariantPatterns(name) ==
  <<name, <<"block/">> \o name, <<"minecraft:", "block/">> \o name>>

BasePatterns(cleanName) ==
  << cleanName,
     <<"block/">> \o cleanName,
     <<"minecraft:", "block/">> \o cleanName,
     ReplaceFirst(cleanName, <<"minecraft:">>),
     SplitBracket(cleanName) >>

\* the variant of the table entry of cleanName, if the table has one (94-100)
StateVariant(blockStates, cleanName, stateString) ==
  IF Has(blockStates, cleanName)
  THEN SelectVariant(Get(blockStates, cleanName), stateString)
  ELSE NoVariant

\* modelPatterns.push(...) when the variant names a model (101-107)
PushVariant(patterns, variant) ==
  IF variant.model # NoStr
  THEN patterns \o VariantPatterns(cleanTexturePath(variant.model))
  ELSE patterns

ModelPatternsOf(blockStates, cleanName, stateString) ==
  PushVariant(BasePatterns(cleanName), StateVariant(blockStates, cleanName, stateString))

ModelPatterns(blockStates, blockName, blockState) ==
  ModelPatternsOf(blockStates, cleanTexturePath(blockName), Join(blockState, ","))

\* modelName after the loop over the patterns (111-117)
OrCleanName(found, cleanName) == IF found # NoStr THEN found ELSE cleanName

\* the catalog name of the model read at 120-123, << >> when there is none
ModelNamed(blockModels, modelName) ==
  IF Has(blockModels, modelName) THEN modelName
  ELSE IF Includes(modelName, <<"block/">>)
            /\ Has(blockModels, ReplaceFirst(modelName, <<"block/">>))
       THEN ReplaceFirst(modelName, <<"block/">>)
       ELSE NoStr

\* the name of the model getModel processes, << >> when it finds none (110-128)
ModelNameFor(blockModels, blockStates, blockName, blockState) ==
  ModelNamed(blockModels,
             OrCleanName(FirstFound(blockModels,
                                    ModelPatterns(blockStates, blockName, blockState)),
                         cleanTexturePath(blockName)))

ProcessNamed(blockModels, modelName) ==
  IF modelName = NoStr THEN Null
  ELSE processModel(blockModels, Get(blockModels, modelName), 1)

\* the result of a call that misses the cache
getModelMiss(blockModels, blockStates, blockName, blockState) ==
  ProcessNamed(blockModels, ModelNameFor(blockModels, blockStates, blockName, blockState))

(***************************************************************************)
(* The second revision, src/blockmodelloader.js 300-566.  Its merged       *)
(* element list holds the parent's element objects themselves, not copies: *)
(* an element of a processed model is a handle, either its own value       *)
(* (owner = << >>) or the idx-th element of the catalog model `owner`.     *)
(***************************************************************************)
NoElement == [id |-> "none", faces |-> EmptyObj, hasFaces |-> TRUE,
              from |-> <<0, 0, 0>>, to |-> <<16, 16, 16>>]

Own(e) == [owner |-> NoStr, idx |-> 0, val |-> e]

Shared(owner, idx) == [owner |-> owner, idx |-> idx, val |-> NoElement]

Deref(blockModels, h) ==
  IF h.owner = NoStr THEN h.val ELSE Get(blockModels, h.owner).elements[h.idx]

\* a processed model as it reads now
View(blockModels, m) ==
  [m EXCEPT !.elements = [i \in 1..Len(m.elements) |-> Deref(blockModels, m.elements[i])]]

OwnAll(elements) == [i \in 1..Len(elements) |-> Own(elements[i])]

SharedAll(owner, elements) == [i \in 1..Len(elements) |-> Shared(owner, i)]

\* the catalog name of the parent processModel finds, << >> when it finds none
ParentOf2(blockModels, model) ==
  IF model.parent # NoStr /\ Has(blockModels, cleanTexturePath(model.parent))
  THEN cleanTexturePath(model.parent)
  ELSE NoStr

\* the textures to resolve: the model's, or the defaults of 491-496
TexturesOr(rawTextures, modelName) ==
  IF rawTextures = EmptyObj
  THEN << [k |-> <<"all">>, v |-> Lit(<<"minecraft:", "block/">> \o modelName)],
          [k |-> <<"particle">>, v |-> Lit(<<"minecraft:", "block/">> \o modelName)] >>
  ELSE rawTextures

\* mergedModel.elements, 556-560
Elements2(parentName, parentModel, model) ==
  IF parentModel.hasElements /\ model.hasElements
  THEN SharedAll(parentName, parentModel.elements) \o OwnAll(model.elements)
  ELSE IF model.hasElements THEN OwnAll(model.elements)
  ELSE SharedAll(parentName, parentModel.elements)

Resolved2(model, resolved, hasElements, elements) ==
  IF resolved.error # "none" THEN Thrown(resolved.error)
  ELSE Ok([parent |-> model.parent,
           hasTextures |-> TRUE,
           textures |-> resolved.resolved,
           hasElements |-> hasElements,
           elements |-> elements])

Merged2(textureMap, modelName, model, parentName, parentModel) ==
  Resolved2(model,
            resolveTextureReferences(
              TexturesOr(mergeModels2(parentModel, model).textures, modelName),
              textureMap),
            mergeModels2(parentModel, model).hasElements,
            Elements2(parentName, parentModel, model))

WithParent2(blockModels, textureMap, modelName, model, parentName) ==
  IF parentName = NoStr
  THEN Resolved2(model,
                 resolveTextureReferences(TexturesOr(TexturesOrEmpty(model), modelName),
                                          textureMap),
                 model.hasElements, OwnAll(model.elements))
  ELSE Merged2(textureMap, modelName, model, parentName, Get(blockModels, parentName))

\* processModel, src/blockmodelloader.js 468-506, before the cache is set
processModel2(blockModels, textureMap, modelName, model) ==
  WithParent2(blockModels, textureMap, modelName, model, ParentOf2(blockModels, model))

\* blockModels[name] || blockModels[`block/${name}`]
Lookup2(blockModels, name) ==
  FirstFound(blockModels, <<name, <<"block/">> \o name>>)

GlassPath == <<"minecraft:", "block/", "glass">>

LanternPath == <<"minecraft:", "block/", "lantern">>

\* combinedModel, 417-429
CombinedPane(postModel, sideModel) ==
  [parent |-> NoStr,
   hasTextures |-> TRUE,
   textures |-> Spread(Spread(TexturesOrEmpty(postModel), TexturesOrEmpty(sideModel)),
                       << [k |-> <<"particle">>, v |-> Lit(GlassPath)],
                          [k |-> <<"pane">>, v |-> Lit(GlassPath)] >>),
   hasElements |-> TRUE,
   elements |-> postModel.elements \o sideModel.elements]

GlassPaneOf(blockModels, textureMap, post, side) ==
  IF post = NoStr \/ side = NoStr THEN Null
  ELSE processModel2(blockModels, textureMap, <<"glass_pane">>,
                     CombinedPane(Get(blockModels, post), Get(blockModels, side)))

\* getGlassPaneModel, src/blockmodelloader.js 407-432
getGlassPaneModel(blockModels, textureMap) ==
  GlassPaneOf(blockModels, textureMap,
              Lookup2(blockModels, <<"glass_pane_post">>),
              Lookup2(blockModels, <<"glass_pane_side">>))

\* the model getLanternModel hands to processModel, src/blockmodelloader.js 442-450
LanternInput(model) ==
  [model EXCEPT !.hasTextures = TRUE,
                !.textures = Spread(TexturesOrEmpty(model),
                                    << [k |-> <<"particle">>, v |-> Lit(LanternPath)],
                                       [k |-> <<"lantern">>, v |-> Lit(LanternPath)],
                                       [k |-> <<"all">>, v |-> Lit(LanternPath)] >>)]

\* face.uv = [0, 0, 16, 16] on every face without uv, 452-463
FillUv(element) ==
  [element EXCEPT !.faces =
     [i \in 1..Len(element.faces) |->
        [k |-> element.faces[i].k,
         v |-> IF element.faces[i].v.uv = << >>
               THEN [element.faces[i].v EXCEPT !.uv = <<0, 0, 16 * UVUnit, 16 * UVUnit>>]
               ELSE element.faces[i].v]]]

\* the handles after the loop at 453-463 ...
FillHandles(handles) ==
  [i \in 1..Len(handles) |->
     IF handles[i].owner = NoStr THEN Own(FillUv(handles[i].val)) ELSE handles[i]]

\* ... and the catalog after it: the loop writes through the shared elements
RECURSIVE FillCatalog(_, _)
FillCatalog(blockModels, handles) ==
  IF handles = << >> THEN blockModels
  ELSE LET h == Head(handles)
           owner == Get(blockModels, h.owner)
       IN FillCatalog(
            IF h.owner = NoStr THEN blockModels
            ELSE Put(blockModels, h.owner,
                     [owner EXCEPT !.elements[h.idx] = FillUv(owner.elements[h.idx])]),
            Tail(handles))

(***************************************************************************)
(* getModel, src/blockmodelloader.js 372-405, with getLanternModel 434-466: *)
(* the result, and the catalog and the cache the call leaves behind.       *)
(***************************************************************************)
Outcome(result, blockModels, modelCache, miss) ==
  [result |-> result, blockModels |-> blockModels, modelCache |-> modelCache,
   miss |-> miss]

\* the modelCache.set at the end of processModel, 503
Cached2(p, blockModels, modelCache, modelName) ==
  Outcome(p, blockModels,
          IF p.status = "ok" THEN Put(modelCache, modelName, p.model) ELSE modelCache,
          TRUE)

\* a processModel call and its modelCache.set
Processed2(blockModels, modelCache, textureMap, modelName, model) ==
  Cached2(processModel2(blockModels, textureMap, modelName, model),
          blockModels, modelCache, modelName)

Filled(model) == [model EXCEPT !.elements = FillHandles(model.elements)]

\* the uv loop of getLanternModel on the processed model p, 452-465
LanternFilled(p, blockModels, modelCache) ==
  IF p.status # "ok" THEN Outcome(p, blockModels, modelCache, TRUE)
  ELSE Outcome(Ok(Filled(p.model)), FillCatalog(blockModels, p.model.elements),
               Put(modelCache, <<"lantern">>, Filled(p.model)), TRUE)

LanternNamed(blockModels, modelCache, textureMap, name) ==
  IF name = NoStr THEN Outcome(Null, blockModels, modelCache, TRUE)
  ELSE LanternFilled(processModel2(blockModels, textureMap, <<"lantern">>,
                                   LanternInput(Get(blockModels, name))),
                     blockModels, modelCache)

getLanternModel(blockModels, modelCache, textureMap) ==
  LanternNamed(blockModels, modelCache, textureMap, Lookup2(blockModels, <<"lantern">>))

\* getModel past the special cases, 384-404
Direct2(blockModels, modelCache, textureMap, cleanName, name) ==
  IF Has(modelCache, cleanName)
  THEN Outcome(Ok(Get(modelCache, cleanName)), blockModels, modelCache, FALSE)
  ELSE IF name = NoStr THEN Outcome(Null, blockModels, modelCache, TRUE)
  ELSE Processed2(blockModels, modelCache, textureMap, cleanName, Get(blockModels, name))

getModelClean2(blockModels, modelCache, textureMap, cleanName) ==
  IF cleanName = <<"glass_pane">>
  THEN Cached2(getGlassPaneModel(blockModels, textureMap), blockModels, modelCache,
               <<"glass_pane">>)
  ELSE IF cleanName = <<"lantern">>
  THEN getLanternModel(blockModels, modelCache, textureMap)
  ELSE Direct2(blockModels, modelCache, textureMap, cleanName,
               Lookup2(blockModels, cleanName))

getModel2(blockModels, modelCache, textureMap, blockName) ==
  getModelClean2(blockModels, modelCache, textureMap, cleanTexturePath(blockName))

(***************************************************************************)
(* The third revision, src/unnamed/part_000: getModel(blockName, variant)  *)
(* walks the parent chain in a while loop that has no exit on a cyclic     *)
(* chain; WalkLimit turns of it stand for a loop that does not return.     *)
(***************************************************************************)
WalkLimit == 8

StripNs(name) == ReplaceFirst(name, <<"minecraft:", "block/">>)

\* the loop at 61-73: the chain root first, or "noreturn"
RECURSIVE WalkChain(_, _, _, _)
WalkChain(blockModels, currentModel, modelChain, turns) ==
  IF turns > WalkLimit THEN [status |-> "noreturn", chain |-> modelChain]
  ELSE IF currentModel.parent = NoStr \/ ~Has(blockModels, StripNs(currentModel.parent))
  THEN [status |-> "ok", chain |-> modelChain]
  ELSE WalkChain(blockModels, Get(blockModels, StripNs(currentModel.parent)),
                 <<Get(blockModels, StripNs(currentModel.parent))>> \o modelChain,
                 turns + 1)

\* modelChain.reduce((merged, next) => this.mergeModels(merged, next), {})
RECURSIVE MergeChain(_, _)
MergeChain(merged, modelChain) ==
  IF modelChain = << >> THEN merged
  ELSE MergeChain(mergeModels3(merged, Head(modelChain)), Tail(modelChain))

VariantsOf(blockStates, blockName) ==
  IF Has(blockStates, blockName) THEN Get(blockStates, blockName) ELSE EmptyObj

\* variant || Object.keys(blockState.variants)[0]
VariantKey(variants, variant) ==
  IF variant # NoStr THEN variant
  ELSE IF variants # EmptyObj THEN variants[1].k ELSE NoStr

VariantAt(variants, variantKey) ==
  IF Has(variants, variantKey)
  THEN [found |-> TRUE, data |-> Get(variants, variantKey)]
  ELSE [found |-> FALSE, data |-> NoVariant]

VariantIn(variants, variant) == VariantAt(variants, VariantKey(variants, variant))

\* the variant getModel reads, 35-52: the named one, or the first of the table
VariantFor(blockStates, blockName, variant) ==
  VariantIn(VariantsOf(blockStates, blockName), variant)

ModelName3(v, blockName) ==
  IF v.found /\ v.data.model # NoStr THEN StripNs(v.data.model) ELSE blockName

\* the merge of the chain and the rotation, 75-82
Rotated(walk, model, v) ==
  IF walk.status # "ok" THEN Thrown(walk.status)
  ELSE [status |-> "ok",
        model |-> mergeModels3(MergeChain(NoModel, walk.chain), model),
        rotation |-> [has |-> TRUE, x |-> v.data.x, y |-> v.data.y]]

Chained3(blockModels, model, v) ==
  Rotated(WalkChain(blockModels, model, << >>, 1), model, v)

Resolve3(blockModels, modelName, v) ==
  IF ~Has(blockModels, modelName) THEN Null
  ELSE Chained3(blockModels, Get(blockModels, modelName), v)

getModelOf3(blockModels, v, blockName) ==
  Resolve3(blockModels, ModelName3(v, blockName), v)

getModel3(blockModels, blockStates, blockName, variant) ==
  getModelOf3(blockModels, VariantFor(blockStates, blockName, variant), blockName)

(***************************************************************************)
(* A getModel call of each revision as its caller sees it: the result and  *)
(* the loader it leaves behind.                                            *)
(***************************************************************************)
Missed(res, blockModels, modelCache, cacheKey) ==
  Outcome(res, blockModels,
          IF res.status = "ok" THEN Put(modelCache, cacheKey, res.model) ELSE modelCache,
          TRUE)

getModelAt(blockModels, blockStates, modelCache, blockName, blockState, cacheKey) ==
  IF Has(modelCache, cacheKey)
  THEN Outcome(Ok(Get(modelCache, cacheKey)), blockModels, modelCache, FALSE)
  ELSE Missed(getModelMiss(blockModels, blockStates, blockName, blockState),
              blockModels, modelCache, cacheKey)

getModel(blockModels, blockStates, modelCache, blockName, blockState) ==
  getModelAt(blockModels, blockStates, modelCache, blockName, blockState,
             CacheKey(blockName, blockState))

\* the result of a call of the second revision as it reads when returned
Viewed(out) ==
  [out EXCEPT !.result = IF out.result.status = "ok"
                         THEN Ok(View(out.blockModels, out.result.model))
                         ELSE out.result]

LoaderCall(rev, catalog, states, cache, textureMap, blockName, blockState) ==
  IF rev = 1 THEN getModel(catalog, states, cache, blockName, blockState)
  ELSE IF rev = 2 THEN Viewed(getModel2(catalog, cache, textureMap, blockName))
  ELSE Outcome(getModel3(catalog, states, blockName, Join(blockState, ",")),
               catalog, cache, TRUE)

(***************************************************************************)
(* Baked geometry.  A geometry is the list of its boxes; a box is the two  *)
(* corners [min, max] of a THREE.BoxGeometry after its translations, in    *)
(* units of 1/LenUnit, with its uv attribute: 24 vertices, 48 numbers in   *)
(* units of 1/UVUnit, the eight numbers of a side at 8 * faceMap[side].    *)
(***************************************************************************)
LenUnit == 32 * 1000

\* the sides in the order of faceMap, src/blockmodelrenderer.js 126-133
Sides == <<"east", "west", "up", "down", "south", "north">>

IsSide(faceName) == \E i \in 1..Len(Sides) : Sides[i] = faceName

SideIndex(faceName) == (CHOOSE i \in 1..Len(Sides) : Sides[i] = faceName) - 1

Abs(n) == IF n < 0 THEN -n ELSE n

Max(a, b) == IF a > b THEN a ELSE b

\* the uv attribute THREE.BoxGeometry is made with
BoxUv ==
  [i \in 1..(8 * Len(Sides)) |->
     <<0, UVUnit, UVUnit, UVUnit, 0, 0, UVUnit, 0>>[((i - 1) % 8) + 1]]

\* new THREE.BoxGeometry(w, h, d): centred on the origin
BoxGeometry(size) ==
  [min |-> [a \in 1..3 |-> -(size[a] \div 2)],
   max |-> [a \in 1..3 |-> size[a] - (size[a] \div 2)],
   uv |-> BoxUv]

\* geometry.translate(x, y, z)
Translate(box, t) ==
  [box EXCEPT !.min = [a \in 1..3 |-> box.min[a] + t[a]],
              !.max = [a \in 1..3 |-> box.max[a] + t[a]]]

\* uvAttribute.array[i] = v, one assignment after the other
RECURSIVE Store(_, _)
Store(array, writes) ==
  IF writes = << >> THEN array
  ELSE Store([array EXCEPT ![Head(writes).i + 1] = Head(writes).v], Tail(writes))

Write(i, v) == [i |-> i, v |-> v]

\* new THREE.BoxGeometry(1, 1, 1)
UnitBox == <<BoxGeometry(<<LenUnit, LenUnit, LenUnit>>)>>

\* this.defaultGeometry, src/blockmodelrenderer.js 10-11
DefaultGeometry ==
  <<Translate(BoxGeometry(<<LenUnit, LenUnit, LenUnit>>),
              <<LenUnit \div 2, LenUnit \div 2, LenUnit \div 2>>)>>

(***************************************************************************)
(* createGeometryFromModel, src/blockmodelrenderer.js 57-217.  The inputs  *)
(* have no element rotation and no face rotation.                          *)
(***************************************************************************)
\* faceData.uv.map(v => v > 1 ? v / 16 : v)
ScaleUnlessScaled(uv) ==
  [i \in 1..Len(uv) |-> IF uv[i] > UVUnit THEN uv[i] \div 16 ELSE uv[i]]

\* the assignments at 181-188
FaceWrites(baseIndex, uv) ==
  << Write(baseIndex, uv[1]), Write(baseIndex + 1, uv[2]),
     Write(baseIndex + 2, uv[3]), Write(baseIndex + 3, uv[2]),
     Write(baseIndex + 4, uv[1]), Write(baseIndex + 5, uv[4]),
     Write(baseIndex + 6, uv[3]), Write(baseIndex + 7, uv[4]) >>

\* one turn of the face loop, 137-190
MapFace(array, faceName, faceData) ==
  IF Len(faceData.uv) # 4 \/ ~IsSide(faceName) THEN array
  ELSE Store(array, FaceWrites(SideIndex(faceName) * 8, ScaleUnlessScaled(faceData.uv)))

RECURSIVE MapFaces(_, _)
MapFaces(array, faces) ==
  IF faces = << >> THEN array
  ELSE MapFaces(MapFace(array, Head(faces).k, Head(faces).v), Tail(faces))

\* size, 74-78
SizeOf(from, to) == [a \in 1..3 |-> Abs(to[a] - from[a]) * (LenUnit \div 16)]

\* the box sizes handed to BoxGeometry, 81-85
AtLeastThin(size) == [a \in 1..3 |-> Max(size[a], LenUnit \div 1000)]

\* position, 88-92
PositionOf(from, size) ==
  [a \in 1..3 |-> from[a] * (LenUnit \div 16) + (size[a] \div 2)]

\* the geometry of one element, 71-94 and 124-193
ElementGeometry(element) ==
  [Translate(BoxGeometry(AtLeastThin(SizeOf(element.from, element.to))),
             PositionOf(element.from, SizeOf(element.from, element.to)))
     EXCEPT !.uv = IF element.hasFaces THEN MapFaces(BoxUv, element.faces) ELSE BoxUv]

\* the guard at 66-69
Skipped(element) == Len(element.from) # 3 \/ Len(element.to) # 3

\* a null in the elements array, known by its id
NullElement == [id |-> "null", faces |-> EmptyObj, hasFaces |-> FALSE,
                from |-> << >>, to |-> << >>]

\* element.from of null throws a TypeError at 66, inside the try of 65: the
\* catch at 197-200 goes on with the next element
Caught(element) == element = NullElement

\* the element loop with a malformed element ending the loop
RECURSIVE ElementGeometriesUntilBad(_)
ElementGeometriesUntilBad(elements) ==
  IF elements = << >> THEN << >>
  ELSE IF Caught(Head(elements)) \/ Skipped(Head(elements)) THEN << >>
  ELSE <<ElementGeometry(Head(elements))>> \o ElementGeometriesUntilBad(Tail(elements))

RECURSIVE ElementGeometries(_)
ElementGeometries(elements) ==
  IF elements = << >> THEN << >>
  ELSE (IF Caught(Head(elements)) \/ Skipped(Head(elements)) THEN << >>
        ELSE <<ElementGeometry(Head(elements))>>)
         \o ElementGeometries(Tail(elements))

\* 203-212: mergeGeometries keeps the vertices of every geometry
OrDefault(geometries, default) == IF geometries = << >> THEN default ELSE geometries

createGeometryFromModelWith(hasModel, model, default) ==
  IF ~hasModel \/ ~model.hasElements \/ model.elements = << >> THEN default
  ELSE OrDefault(ElementGeometries(model.elements), default)

createGeometryFromModel(hasModel, model) ==
  createGeometryFromModelWith(hasModel, model, DefaultGeometry)

\* the model createBlockMesh substitutes, src/blockmodelrenderer.js 17-30
FullUv == <<0, 0, 16 * UVUnit, 16 * UVUnit>>

FullCube ==
  [NoModel EXCEPT
     !.hasElements = TRUE,
     !.elements =
       <<[id |-> "cube", hasFaces |-> TRUE,
          from |-> <<0, 0, 0>>, to |-> <<16, 16, 16>>,
          faces |-> [i \in 1..6 |->
                       [k |-> <<"north", "south", "east", "west", "up", "down">>[i],
                        v |-> [uv |-> FullUv, hasTexture |-> FALSE,
                               texture |-> Lit(NoStr)]]]]>>]

\* the geometry createBlockMesh makes at src/blockmodelrenderer.js 16-33
BlockMeshGeometry(hasModel, model) ==
  IF ~hasModel \/ ~model.hasElements \/ model.elements = << >>
  THEN createGeometryFromModel(TRUE, FullCube)
  ELSE createGeometryFromModel(TRUE, model)

NoGeometry == << >>

\* createBlockMesh, src/blockmodelrenderer.js 14-55: line 37 calls
\* this.createMaterial, which BlockModelRenderer does not define; the TypeError
\* is caught at 51-54 and null is returned, whatever the geometry made at 33
createBlockMesh(hasModel, model) ==
  IF BlockMeshGeometry(hasModel, model) = NoGeometry
  THEN [geometry |-> NoGeometry, error |-> "none"]
  ELSE [geometry |-> NoGeometry, error |-> "TypeError"]

(***************************************************************************)
(* createGeometryFromModel of the third worker,                            *)
(* src/enhancedmockworker.js 501-613.  The rotations of a block state are  *)
(* multiples of 90 degrees.                                                *)
(***************************************************************************)
\* the assignments of the loop at 576-579 on the index list of a side:
\* indices [b, b+1, b+2, b+3, b, b+3, b+2, b+1] with b = 4 * faceMap[side]
FaceWrites3(b, uv) ==
  << Write(b, uv[1] \div 16),     Write(b + 1, (UVUnit - uv[4]) \div 16),
     Write(b + 2, uv[3] \div 16), Write(b + 3, (UVUnit - uv[2]) \div 16),
     Write(b, uv[1] \div 16),     Write(b + 3, (UVUnit - uv[4]) \div 16),
     Write(b + 2, uv[3] \div 16), Write(b + 1, (UVUnit - uv[2]) \div 16) >>

\* one turn of the face loop, 567-580
MapFace3(array, face, faceData) ==
  IF faceData.uv = << >> \/ ~IsSide(face) THEN array
  ELSE Store(array, FaceWrites3(SideIndex(face) * 4, faceData.uv))

RECURSIVE MapFaces3(_, _)
MapFaces3(array, faces) ==
  IF faces = << >> THEN array
  ELSE MapFaces3(MapFace3(array, Head(faces).k, Head(faces).v), Tail(faces))

\* from[a] + width / 2 - 0.5, 533-537
PositionOf3(from, size) ==
  [a \in 1..3 |-> from[a] * (LenUnit \div 16) + (size[a] \div 2) - (LenUnit \div 2)]

\* the geometry of one element, 524-583
ElementGeometry3(element) ==
  [Translate(BoxGeometry(SizeOf(element.from, element.to)),
             PositionOf3(element.from, SizeOf(element.from, element.to)))
     EXCEPT !.uv = MapFaces3(BoxUv, element.faces)]

\* the guard at 522
Skipped3(element) == element.from = << >> \/ element.to = << >> \/ ~element.hasFaces

RECURSIVE ElementGeometries3(_)
ElementGeometries3(elements) ==
  IF elements = << >> THEN << >>
  ELSE (IF Skipped3(Head(elements)) THEN << >> ELSE <<ElementGeometry3(Head(elements))>>)
         \o ElementGeometries3(Tail(elements))

\* the merged geometry, 518-602
MergedGeometry3(model) == OrDefault(ElementGeometries3(model.elements), UnitBox)

\* a point turned by a quarter turn: rotateY takes (x, y, z) to (z, y, -x),
\* rotateX takes it to (x, -z, y)
QuarterY(p) == <<p[3], p[2], -p[1]>>

QuarterX(p) == <<p[1], -p[3], p[2]>>

Min(a, b) == IF a < b THEN a ELSE b

\* the box between two turned corners
Between(box, p, q) ==
  [box EXCEPT !.min = [a \in 1..3 |-> Min(p[a], q[a])],
              !.max = [a \in 1..3 |-> Max(p[a], q[a])]]

\* geometry.rotateY(degrees * Math.PI / 180) for a multiple of 90 degrees
RECURSIVE rotateY(_, _)
rotateY(made, degrees) ==
  IF degrees % 360 = 0 THEN made
  ELSE rotateY([i \in 1..Len(made) |->
                  Between(made[i], QuarterY(made[i].min), QuarterY(made[i].max))],
               degrees - 90)

\* geometry.rotateX(degrees * Math.PI / 180) for a multiple of 90 degrees
RECURSIVE rotateX(_, _)
rotateX(made, degrees) ==
  IF degrees % 360 = 0 THEN made
  ELSE rotateX([i \in 1..Len(made) |->
                  Between(made[i], QuarterX(made[i].min), QuarterX(made[i].max))],
               degrees - 90)

\* the block state rotation with the x turn made first
WithStateRotationXFirst(made, blockState) ==
  rotateY(rotateX(made, blockState.x), blockState.y)

\* the block state rotation, 604-610: `if (blockState?.y) rotateY`, then
\* `if (blockState?.x) rotateX`
WithStateRotation(made, blockState) ==
  rotateX(rotateY(made, blockState.y), blockState.x)

\* createGeometryFromModel(model, blockState), 501-613
createGeometryFromModel3(model, blockState) ==
  IF ~model.hasElements THEN UnitBox
  ELSE WithStateRotation(MergedGeometry3(model), blockState)

\* this.blockStates?.[blockName]?.variants?.[''], 638: no block state reads as
\* no rotation
DefaultState3(blockStates, blockName) ==
  IF Has(blockStates, blockName) /\ Has(Get(blockStates, blockName), NoStr)
  THEN Get(Get(blockStates, blockName), NoStr)
  ELSE NoVariant

(***************************************************************************)
(* Materials.  A material is the texture transform of its map: the atlas   *)
(* rectangle as repeat and offset, in units of 1/UVUnit.  The atlas has    *)
(* been set (setAtlas) before a mesh is added.                             *)
(***************************************************************************)
PlainMaterial == [hasMap |-> FALSE, repeat |-> <<UVUnit, UVUnit>>, offset |-> <<0, 0>>]

\* map.repeat.set(uvs.width, uvs.height); map.offset.set(uvs.x, uvs.y)
MappedMaterial(uvs) ==
  [hasMap |-> TRUE, repeat |-> <<uvs.width, uvs.height>>, offset |-> <<uvs.x, uvs.y>>]

MaterialOf(uvMapping, mapping) ==
  IF mapping = NoStr THEN PlainMaterial ELSE MappedMaterial(Get(uvMapping, mapping))

\* textureMappings, src/enhancedmockworker.js 44-50
TextureMappings(blockName) ==
  << blockName,
     <<"block/">> \o blockName,
     <<"minecraft:", "block/">> \o blockName,
     blockName \o <<"_texture">>,
     <<"particle">> >>

\* createMaterial(blockId), src/enhancedmockworker.js 35-84, of a known block
createMaterial(uvMapping, blockName) ==
  MaterialOf(uvMapping,
             FirstFound(uvMapping,
                        TextureMappings(ReplaceFirst(blockName, <<"minecraft:">>))))

\* a || b on texture values
OrElse(a, b) == IF Truthy(a) THEN a ELSE b

SlotOr(textures, k) == IF Has(textures, k) THEN Get(textures, k) ELSE Lit(NoStr)

\* textureName, src/enhancedmockworker.js 652-655
TextureName3(model, blockName) ==
  OrElse(SlotOr(model.textures, <<"all">>),
         OrElse(SlotOr(model.textures, <<"particle">>),
                OrElse(SlotOr(model.textures, <<"texture">>), Lit(blockName)))).s

\* cleanName, src/enhancedmockworker.js 427-433
CleanName3(textureName) ==
  ReplaceFirst(ReplaceFirst(ReplaceFirst(ReplaceFirst(ReplaceFirst(ReplaceFirst(
    textureName, <<"minecraft:", "block/">>), <<"minecraft:", "item/">>),
    <<"minecraft:", "items/">>), <<"block/">>), <<"item/">>), <<"items/">>)

PossiblePaths(cleanName) ==
  << cleanName, <<"block/">> \o cleanName, <<"item/">> \o cleanName,
     <<"items/">> \o cleanName >>

\* resolveTexture, src/enhancedmockworker.js 423-454: the key found, or << >>
resolveTexture(uvMapping, textureName) ==
  IF textureName = NoStr THEN NoStr
  ELSE FirstFound(uvMapping, PossiblePaths(CleanName3(textureName)))

\* createMaterial(blockId, textureName), src/enhancedmockworker.js 456-499
createMaterial3(uvMapping, textureName) ==
  IF textureName = NoStr THEN PlainMaterial
  ELSE MaterialOf(uvMapping, resolveTexture(uvMapping, textureName))

(***************************************************************************)
(* The worker, src/enhancedmockworker.js.  A mesh, a geometry or a         *)
(* material is known by the tag of the `new` that made it: the addMesh     *)
(* call, the chunk and the block type; a cached geometry by its cache key. *)
(***************************************************************************)
Tag(call, x, blockType, key) == [call |-> call, x |-> x, type |-> blockType, key |-> key]

\* new THREE.InstancedMesh(geometry, material, count) with the positions set
\* by setMatrixAt; its count is the number of its instances
NewMesh(tag, geometry, instances) ==
  [obj |-> tag, geometry |-> geometry, material |-> tag, instances |-> instances]

\* a block of a chunk with no position
NoPosition == << >>

\* matrix.setPosition(x * 16 + block.position[0], block.position[1],
\* z * 16 + block.position[2]) for each block of the group,
\* src/enhancedmockworker.js 107-115, 664-671
Instances(typeBlocks, x, z) ==
  [i \in 1..Len(typeBlocks) |->
     <<x * 16 + typeBlocks[i].position[1], typeBlocks[i].position[2],
       z * 16 + typeBlocks[i].position[3]>>]

\* what addMeshForBlockType returns
Returns(w, value) == [w EXCEPT !.result = value]

\* the loop with `addedAnyMesh = this.addMeshForBlockType(...)` in its body
TallyLast(w) == [w EXCEPT !.addedAnyMesh = w.result]

\* `if (this.addMeshForBlockType(...)) addedAnyMesh = true`,
\* src/enhancedmockworker.js 153-157
Tally(w) == [w EXCEPT !.addedAnyMesh = @ \/ w.result]

\* `${chunkX},${chunkZ},${blockType}`
MeshId(x, z, blockType) == <<x, z, blockType>>

Note(w, blockType, outcome) == [w EXCEPT !.outcomes = Put(@, blockType, outcome)]

AfterCall(w, out) ==
  [w EXCEPT !.blockModels = out.blockModels, !.modelCache = out.modelCache]

\* addMeshToScene of the first revision with the scene.remove left out
addMeshToSceneNoRemove(w, meshId, mesh) ==
  LET known == Has(w.meshes, meshId)
      oldMesh == Get(w.meshes, meshId)
  IN [w EXCEPT !.scene = @ \cup {mesh},
               !.disposed = IF known
                            THEN @ \cup {[kind |-> "geometry", id |-> oldMesh.geometry],
                                         [kind |-> "material", id |-> oldMesh.material]}
                            ELSE @,
               !.replaced = IF known THEN @ \cup {oldMesh} ELSE @,
               !.meshes = Put(@, meshId, mesh)]

\* addMeshToScene, src/enhancedmockworker.js 127-136
addMeshToScene(w, meshId, mesh) ==
  LET known == Has(w.meshes, meshId)
      oldMesh == Get(w.meshes, meshId)
  IN [w EXCEPT !.scene = (IF known THEN @ \ {oldMesh} ELSE @) \cup {mesh},
               !.disposed = IF known
                            THEN @ \cup {[kind |-> "geometry", id |-> oldMesh.geometry],
                                         [kind |-> "material", id |-> oldMesh.material]}
                            ELSE @,
               !.replaced = IF known THEN @ \cup {oldMesh} ELSE @,
               !.meshes = Put(@, meshId, mesh)]

\* addMeshForBlockType past the getModel call, 96-124: createGeometryFromModel
\* of src/blockmodelrenderer.js 57-60 gives the default cube for a null model
AddKnown(w, out, blockType, tag, meshId, instances) ==
  IF out.result.status \notin {"ok", "null"}
  THEN Returns(Note(AfterCall(w, out), blockType, "caught"), FALSE)
  ELSE Returns(addMeshToScene(Note(AfterCall(w, out), blockType,
                                   IF out.result.status = "ok" THEN "added"
                                   ELSE "default"),
                              meshId, NewMesh(tag, tag, instances)),
               TRUE)

\* this.modelLoader.getModel(block.name, block.metadata)
CallFor(w, rev, states, textureMap, block) ==
  LoaderCall(rev, w.blockModels, states, w.modelCache, textureMap,
             block.name, block.metadata)

\* addMeshForBlockType, src/enhancedmockworker.js 86-125
addMeshForBlockType(w, rev, states, blockTypes, textureMap, blockType, typeBlocks, call, x, z) ==
  IF ~Has(blockTypes, blockType) THEN Returns(Note(w, blockType, "unknown"), FALSE)
  ELSE AddKnown(w, CallFor(w, rev, states, textureMap, Get(blockTypes, blockType)),
                blockType, Tag(call, x, blockType, NoStr), MeshId(x, z, blockType),
                Instances(typeBlocks, x, z))

\* the types of the blocks that have a position and are not air, in the order
\* they first appear (the keys of blocksByType)
RECURSIVE GroupTypes(_, _)
GroupTypes(typeBlocks, found) ==
  IF typeBlocks = << >> THEN << >>
  ELSE LET block == Head(typeBlocks)
       IN IF block.position = NoPosition \/ block.type = 0 \/ block.type \in found
          THEN GroupTypes(Tail(typeBlocks), found)
          ELSE <<block.type>> \o GroupTypes(Tail(typeBlocks), found \cup {block.type})

\* blocksByType.get(blockType): the blocks of the group of a type, in the
\* order of the message, src/enhancedmockworker.js 145-151, 621-628
TypeBlocks(chunkBlocks, blockType) ==
  SelectSeq(chunkBlocks,
            LAMBDA block : block.position # NoPosition /\ block.type = blockType)

\* the loop over blocksByType, src/enhancedmockworker.js 153-157
RECURSIVE AddGroups(_, _, _, _, _, _, _, _)
AddGroups(w, rev, states, blockTypes, textureMap, groups, call, data) ==
  IF groups = << >> THEN w
  ELSE AddGroups(Tally(addMeshForBlockType(w, rev, states, blockTypes, textureMap,
                                           Head(groups),
                                           TypeBlocks(data.blocks, Head(groups)),
                                           call, data.x, data.z)),
                 rev, states, blockTypes, textureMap, Tail(groups), call, data)

\* `return addedAnyMesh`, src/enhancedmockworker.js 159
ReturnAdded(w) == [w EXCEPT !.returned = IF w.addedAnyMesh THEN "true" ELSE "false"]

\* addMesh, src/enhancedmockworker.js 138-160
addMesh(w, rev, states, blockTypes, textureMap, data, call) ==
  ReturnAdded(AddGroups(w, rev, states, blockTypes, textureMap,
                        GroupTypes(data.blocks, {}), call, data))

\* the registration at the end of the loop body, src/enhancedmockworker.js 677-690
RegisterMesh3(w, meshId, mesh) ==
  LET known == Has(w.meshes, meshId)
      oldMesh == Get(w.meshes, meshId)
  IN [w EXCEPT !.scene = (IF known THEN @ \ {oldMesh} ELSE @) \cup {mesh},
               !.disposed = IF known
                            THEN @ \cup {[kind |-> "geometry", id |-> oldMesh.geometry],
                                         [kind |-> "material", id |-> oldMesh.material]}
                            ELSE @,
               !.replaced = IF known THEN @ \cup {oldMesh} ELSE @,
               !.meshes = Put(@, meshId, mesh)]

\* `${blockType}_${model.parent || 'default'}`
GeometryKey(blockType, model) ==
  Tag(0, 0, blockType, IF model.parent # NoStr THEN model.parent ELSE <<"default">>)

\* the loop body for a model that was found, 642-690
AddFound3(w, model, blockType, call, x, z, instances) ==
  RegisterMesh3(
    [Note(w, blockType, "added") EXCEPT
       !.geometryCache = @ \cup {GeometryKey(blockType, model)}],
    MeshId(x, z, blockType),
    NewMesh(Tag(call, x, blockType, NoStr), GeometryKey(blockType, model), instances))

AddKnown3(w, out, blockType, call, x, z, instances) ==
  IF out.result.status = "null" THEN Note(AfterCall(w, out), blockType, "nomodel")
  ELSE IF out.result.status # "ok"
  THEN [Note(AfterCall(w, out), blockType, "thrown") EXCEPT !.aborted = TRUE]
  ELSE AddFound3(AfterCall(w, out), out.result.model, blockType, call, x, z, instances)

\* one turn of the loop of the third revision, src/enhancedmockworker.js 630-691
AddGroup3(w, rev, states, blockTypes, textureMap, blockType, typeBlocks, call, x, z) ==
  IF ~Has(blockTypes, blockType) THEN Note(w, blockType, "unknown")
  ELSE AddKnown3(w,
                 LoaderCall(rev, w.blockModels, states, w.modelCache, textureMap,
                            Get(blockTypes, blockType).name, NoStr),
                 blockType, call, x, z, Instances(typeBlocks, x, z))

RECURSIVE AddGroups3(_, _, _, _, _, _, _, _)
AddGroups3(w, rev, states, blockTypes, textureMap, groups, call, data) ==
  IF groups = << >> \/ w.aborted THEN w
  ELSE AddGroups3(AddGroup3(w, rev, states, blockTypes, textureMap, Head(groups),
                            TypeBlocks(data.blocks, Head(groups)),
                            call, data.x, data.z),
                  rev, states, blockTypes, textureMap, Tail(groups), call, data)

\* addMesh, src/enhancedmockworker.js 615-692; it has no return value
addMesh3(w, rev, states, blockTypes, textureMap, data, call) ==
  AddGroups3(w, rev, states, blockTypes, textureMap, GroupTypes(data.blocks, {}),
             call, data)

(***************************************************************************)
(* State.                                                                  *)
(*   mParent, mChild, mOut, mDone   one mergeModels call of each revision  *)
(*   textures, tState, tIdx, tOut1  one resolveTextureReferences call: the *)
(*                                  loop position and the closure's state  *)
(***************************************************************************)
VARIABLES mParent, mChild, mOut, mDone,
          textures, tState, tIdx, tOut1,
          revision, blockModels, blockStates, blocks, modelCache,
          lastCall, lastRes, firstRes,
          worker, mcData, meshes, scene, disposed, geometryCache,
          calls, lastChunk, lastBlocks, outcomes, replaced, addResult,
          baker, uvMapping, bakedOf, geometry, material,
          files, loadRev, pending, tables, loadResult, initResult,
          messageQueue, processingQueue, running, posted, processed,
          center, world, viewAt, scanAt, scanned, chunkBlocks, meshCount,
          exports

mergeVars == <<mParent, mChild, mOut, mDone>>

texVars == <<textures, tState, tIdx, tOut1>>

\* the loader: the revision of its code, its catalogs and cache, the block
\* types its client asks for, the last getModel call with its result, and the
\* result of each call when it first missed the cache
loaderVars == <<revision, blockModels, blockStates, blocks, modelCache,
                lastCall, lastRes, firstRes>>

\* the worker: the revision of its code, the block types it knows, its mesh
\* registry, the scene, the geometries and materials disposed of, its geometry
\* cache, the number of addMesh calls, the chunk of the last one and (under
\* SpecGroup) its blocks, what became of each of its block-type groups, the
\* meshes that have been replaced, and what the last addMesh call returned
workerVars == <<worker, mcData, meshes, scene, disposed, geometryCache,
                calls, lastChunk, lastBlocks, outcomes, replaced, addResult>>

\* the baking of the model last returned: the worker revision that bakes, the
\* texture rectangles of the atlas, the getModel call and result that were
\* baked, the geometry and the material made of them
renderVars == <<baker, uvMapping, bakedOf, geometry, material>>

\* loadBlockModels under initialize: the state of the three definition files,
\* the worker and loader revisions, the reads still pending, the tables set,
\* and how loadBlockModels and initialize ended
loadVars == <<files, loadRev, pending, tables, loadResult, initResult>>

\* the message queue of the mock worker of src/index.js: the queue and its
\* flag, where the running postMessage call stands, and the messages posted and
\* the messages handed to processMessage so far
queueVars == <<messageQueue, processingQueue, running, posted, processed>>

\* generateMeshes of the world view: the centre of the scan, the world, where
\* the call stands, the turn of the scan loop, the blocks array, the chunks
\* not yet sent to the worker, and the count of the chunks that gave a mesh
viewVars == <<center, world, viewAt, scanAt, scanned, chunkBlocks, meshCount>>

\* the exportGLTF calls made so far: of each its file name, the state of the
\* promise it returned, its timer, and where its work stands
exportVars == <<exports>>

restVars == <<queueVars, viewVars, exportVars>>

vars == <<mergeVars, texVars, loaderVars, workerVars, renderVars, loadVars, restVars>>

NoCall == [name |-> NoStr, state |-> NoStr]

NotRunning == [at |-> "idle", message |-> 0]

LoaderIdle ==
  /\ revision = 0
  /\ blockModels = EmptyObj
  /\ blockStates = EmptyObj
  /\ blocks = {}
  /\ modelCache = EmptyObj
  /\ lastCall = NoCall
  /\ lastRes = Null
  /\ firstRes = EmptyObj

NoChunk == [x |-> 0, z |-> 0]

WorkerStart ==
  /\ meshes = EmptyObj
  /\ scene = {}
  /\ disposed = {}
  /\ geometryCache = {}
  /\ calls = 0
  /\ lastChunk = NoChunk
  /\ lastBlocks = << >>
  /\ outcomes = EmptyObj
  /\ replaced = {}
  /\ addResult = "none"

WorkerIdle ==
  /\ worker = 0
  /\ mcData = EmptyObj
  /\ WorkerStart

NoBake == [call |-> NoCall, res |-> Null, by |-> "none"]

RenderIdle ==
  /\ baker = 0
  /\ uvMapping = EmptyObj
  /\ bakedOf = NoBake
  /\ geometry = NoGeometry
  /\ material = PlainMaterial

LoadIdle ==
  /\ files = << >>
  /\ loadRev = 0
  /\ pending = << >>
  /\ tables = {}
  /\ loadResult = "none"
  /\ initResult = "none"

\* constructor, src/index.js 88-99
QueueIdle ==
  /\ messageQueue = <<>>
  /\ processingQueue = FALSE
  /\ running = NotRunning
  /\ posted = <<>>
  /\ processed = <<>>

ViewIdle ==
  /\ center = [x |-> 0, z |-> 0]
  /\ world = "none"
  /\ viewAt = "idle"
  /\ scanAt = 0
  /\ scanned = << >>
  /\ chunkBlocks = << >>
  /\ meshCount = 0

ExportIdle == exports = << >>

RestIdle == QueueIdle /\ ViewIdle /\ ExportIdle

MergeIdle ==
  /\ mParent = NoModel
  /\ mChild = NoModel
  /\ mOut = [v1 |-> NoModel, v2 |-> NoModel, v3 |-> NoModel]
  /\ mDone = {}

TexIdle ==
  /\ textures = EmptyObj
  /\ tState = ResolveStart
  /\ tIdx = 0
  /\ tOut1 = EmptyObj

(***************************************************************************)
(* Inputs.                                                                 *)
(***************************************************************************)
MaxSlots == 3

MaxElems == 2

SlotNames == <<"a", "b", "c", "d", "e">>

Slots == {<<SlotNames[i]>> : i \in 1..MaxSlots}

TexValues ==
  {Lit(LanternPath), Lit(<<"block/", "stone">>), Lit(NoStr), Lit(<<"#", "zz">>)}
    \cup {Lit(<<"#">> \o s) : s \in Slots}

\* the texture objects with up to n slots, the i-th slot named SlotNames[i]
TexMaps(n) ==
  UNION {{[i \in 1..len |-> [k |-> <<SlotNames[i]>>, v |-> f[i]]] :
            f \in [1..len -> TexValues]} : len \in 0..n}

Face(uv, tex) == [uv |-> uv, hasTexture |-> tex # NoStr, texture |-> Lit(tex)]

\* an element that fills the block
Element(id, faces) == [id |-> id, faces |-> faces, hasFaces |-> TRUE,
                       from |-> <<0, 0, 0>>, to |-> <<16, 16, 16>>]

ElemPool == {Element("e1", <<[k |-> "up", v |-> Face(<< >>, <<"#", "a">>)]>>),
             Element("e2", EmptyObj)}

\* the element lists of up to n elements
ElemLists(n) == UNION {[1..len -> ElemPool] : len \in 0..n}

Absent == [has |-> FALSE, m |-> EmptyObj, l |-> << >>]

TexOptions(n) == {Absent} \cup {[has |-> TRUE, m |-> t] : t \in TexMaps(n)}

ElemOptions(n) == {Absent} \cup {[has |-> TRUE, l |-> e] : e \in ElemLists(n)}

ParentNames == {NoStr, <<"minecraft:", "block/", "p">>}

\* models that vary in their elements, and models that vary in their textures
TexFew == {Absent, [has |-> TRUE, m |-> <<[k |-> <<"a">>, v |-> Lit(LanternPath)]>>]}

ModelPool ==
  {Model(p, t, e) : p \in ParentNames, t \in TexFew, e \in ElemOptions(MaxElems)}
    \cup {Model(p, t, e) : p \in ParentNames, t \in TexOptions(2), e \in {Absent}}

TextureData == <<[name |-> <<"lantern">>, texture |-> <<"minecraft:", "blocks/", "lantern">>]>>

TextureMap == BuildTextureMap(EmptyObj, TextureData)

(***************************************************************************)
(* SpecMerge: mergeModels of each revision on one parent and one child.    *)
(***************************************************************************)
InitMerge ==
  /\ mParent \in ModelPool
  /\ mChild \in {m \in ModelPool : m.parent # NoStr}
  /\ mOut = [v1 |-> NoModel, v2 |-> NoModel, v3 |-> NoModel]
  /\ mDone = {}
  /\ TexIdle
  /\ LoaderIdle
  /\ WorkerIdle
  /\ RenderIdle
  /\ LoadIdle
  /\ RestIdle

MergeModels ==
  /\ "v1" \notin mDone
  /\ mOut' = [mOut EXCEPT !.v1 = mergeModels(mChild, mParent)]
  /\ mDone' = mDone \cup {"v1"}
  /\ UNCHANGED <<restVars, mParent, mChild, texVars, loaderVars, workerVars, renderVars, loadVars>>

MergeModels2 ==
  /\ "v2" \notin mDone
  /\ mOut' = [mOut EXCEPT !.v2 = mergeModels2(mParent, mChild)]
  /\ mDone' = mDone \cup {"v2"}
  /\ UNCHANGED <<restVars, mParent, mChild, texVars, loaderVars, workerVars, renderVars, loadVars>>

MergeModels3 ==
  /\ "v3" \notin mDone
  /\ mOut' = [mOut EXCEPT !.v3 = mergeModels3(mParent, mChild)]
  /\ mDone' = mDone \cup {"v3"}
  /\ UNCHANGED <<restVars, mParent, mChild, texVars, loaderVars, workerVars, renderVars, loadVars>>

NextMerge == MergeModels \/ MergeModels2 \/ MergeModels3

SpecMerge == InitMerge /\ [][NextMerge]_vars

(***************************************************************************)
(* SpecTex: one resolveTextureReferences call, slot by slot, and the       *)
(* resolveTextures call of the first revision on the same object.          *)
(***************************************************************************)
InitTex ==
  /\ textures \in TexMaps(MaxSlots)
  /\ tState = ResolveStart
  /\ tIdx = 0
  /\ tOut1 = EmptyObj
  /\ MergeIdle
  /\ LoaderIdle
  /\ WorkerIdle
  /\ RenderIdle
  /\ LoadIdle
  /\ RestIdle

ResolveNextSlot ==
  /\ tIdx < Len(textures)
  /\ tState' = ResolveSlot(textures, TextureMap, tIdx + 1, tState)
  /\ tIdx' = tIdx + 1
  /\ UNCHANGED <<restVars, textures, tOut1, mergeVars, loaderVars, workerVars, renderVars, loadVars>>

ResolveTextures1 ==
  /\ tOut1 = EmptyObj
  /\ textures # EmptyObj
  /\ tOut1' = resolveTextures(textures)
  /\ UNCHANGED <<restVars, textures, tState, tIdx, mergeVars, loaderVars, workerVars, renderVars, loadVars>>

NextTex == ResolveNextSlot \/ ResolveTextures1

SpecTex == InitTex /\ [][NextTex]_vars

(***************************************************************************)
(* SpecLoader: getModel calls on a loader of one of the three revisions.   *)
(* The catalogs are the lantern, door and glass pane models of             *)
(* src/knowledge.md and a two-model parent chain, with the parent          *)
(* references spelled the three ways the catalogs spell them.              *)
(***************************************************************************)
Spellings == {<<"minecraft:", "block/">>, <<"block/">>, NoStr}

Tex(m) == [has |-> TRUE, m |-> m]

Els(l) == [has |-> TRUE, l |-> l]

Slot(k, path) == [k |-> <<k>>, v |-> Lit(path)]

Entry(name, model) == [k |-> <<name>>, v |-> model]

Variant(model, y) == [model |-> model, x |-> 0, y |-> y]

Call(name, state) == [name |-> name, state |-> state]

PartialUv == <<0, 2 * UVUnit, 6 * UVUnit, 9 * UVUnit>>

Box(id, slot, uv) == Element(id, <<[k |-> "north", v |-> Face(uv, <<"#", slot>>)]>>)

LanternCatalog(sp, uv, els, refs) ==
  << Entry("template_lantern",
           Model(NoStr, Tex(refs), Els(<<Box("body", "lantern", uv)>>))),
     Entry("template_hanging_lantern",
           Model(NoStr, Tex(refs), Els(<<Box("chain", "lantern", uv)>>))),
     Entry("lantern",
           Model(sp \o <<"template_lantern">>, Tex(<<Slot("lantern", LanternPath)>>), els)),
     Entry("lantern_hanging",
           Model(sp \o <<"template_hanging_lantern">>,
                 Tex(<<Slot("lantern", LanternPath)>>), Absent)),
     Entry("soul_lantern",
           Model(sp \o <<"template_lantern">>,
                 Tex(<<Slot("lantern", <<"minecraft:", "block/", "soul_lantern">>)>>),
                 Absent)) >>

LanternStates ==
  << Entry("lantern",
           << [k |-> <<"hanging=false">>,
               v |-> Variant(<<"minecraft:", "block/", "lantern">>, 0)],
              [k |-> <<"hanging=true">>,
               v |-> Variant(<<"minecraft:", "block/", "lantern_hanging">>, 0)] >>) >>

LanternBlocks ==
  {Call(<<"lantern">>, NoStr), Call(<<"lantern">>, <<"hanging=true">>),
   Call(<<"lantern">>, <<"hanging=false">>),
   Call(<<"minecraft:", "soul_lantern">>, NoStr)}

LanternWorlds ==
  {[blockModels |-> LanternCatalog(sp, uv, els, refs),
    blockStates |-> LanternStates,
    blocks |-> LanternBlocks] :
     sp \in Spellings,
     uv \in {<< >>, PartialUv},
     els \in {Absent, Els(<< >>), Els(<<Box("own", "lantern", PartialUv)>>)},
     refs \in {<<Slot("particle", <<"#", "lantern">>)>>,
               <<Slot("particle", <<"#", "lantern">>), Slot("all", <<"#", "lantern">>)>>}}

DoorPath == <<"minecraft:", "block/", "oak_door_top">>

DoorCatalog(named) ==
  << Entry("oak_door_top",
           Model(NoStr, Tex(<<Slot("top", DoorPath)>>), Els(<<Box("top", "top", PartialUv)>>))),
     Entry("oak_door_bottom",
           Model(NoStr, Tex(<<Slot("bottom", <<"minecraft:", "block/", "oak_door_bottom">>)>>),
                 Els(<<Box("bottom", "bottom", PartialUv)>>))) >>
    \o IF named
       THEN <<Entry("oak_door",
                    Model(NoStr, Tex(<<Slot("all", DoorPath)>>),
                          Els(<<Box("door", "all", PartialUv)>>)))>>
       ELSE << >>

TopNorth == <<"half=top", "facing=north">>

DoorStates(base) ==
  << Entry("oak_door",
           << [k |-> Join(TopNorth, ","),
               v |-> Variant(<<"minecraft:", "block/", "oak_door_top">>, 90)] >>
             \o IF base
                THEN <<[k |-> NoStr,
                        v |-> Variant(<<"minecraft:", "block/", "oak_door_bottom">>, 0)]>>
                ELSE << >>) >>

DoorBlocks ==
  {Call(<<"oak_door">>, NoStr), Call(<<"oak_door">>, TopNorth),
   Call(<<"oak_door">>, TopNorth \o <<"unknown_prop=x">>),
   Call(<<"oak_door">>, <<"facing=north", "half=top">>),
   Call(<<"oak_door", "[half=top]">>, NoStr)}

DoorWorlds ==
  {[blockModels |-> DoorCatalog(named), blockStates |-> DoorStates(base),
    blocks |-> DoorBlocks] : named \in BOOLEAN, base \in BOOLEAN}

\* model a has parent b; b has no parent, a missing one, a, or itself
ChainCatalog(sp, parentOfB) ==
  << Entry("a", Model(sp \o <<"b">>, Tex(<<Slot("a", LanternPath)>>),
                      Els(<<Box("a", "a", PartialUv)>>))),
     Entry("b", Model(IF parentOfB = NoStr THEN NoStr ELSE sp \o parentOfB,
                      Tex(<<Slot("b", <<"#", "a">>)>>), Absent)) >>

ChainWorlds ==
  {[blockModels |-> ChainCatalog(sp, parentOfB), blockStates |-> EmptyObj,
    blocks |-> {Call(<<"a">>, NoStr), Call(<<"b">>, NoStr)}] :
     sp \in Spellings, parentOfB \in {NoStr, <<"missing">>, <<"a">>, <<"b">>}}

\* the connections of a pane: to the north only, to the north and the east, none
Connections ==
  {<<"north=true", "south=false", "east=false", "west=false">>,
   <<"north=true", "south=false", "east=true", "west=false">>,
   <<"north=false", "south=false", "east=false", "west=false">>}

PaneCatalog(side) ==
  << Entry("glass_pane_post",
           Model(NoStr, Tex(<<Slot("edge", <<"#", "pane">>)>>),
                 Els(<<Box("post", "edge", PartialUv)>>))),
     Entry("stone", Model(NoStr, Absent, Els(<<Box("cube", "all", << >>)>>))) >>
    \o IF side
       THEN <<Entry("glass_pane_side",
                    Model(NoStr, Tex(<<Slot("pane", GlassPath)>>),
                          Els(<<Box("side", "pane", PartialUv)>>)))>>
       ELSE << >>

PaneWorlds ==
  {[blockModels |-> PaneCatalog(side), blockStates |-> EmptyObj,
    blocks |-> {Call(<<"minecraft:", "glass_pane">>, NoStr), Call(<<"stone">>, NoStr)}
                 \cup {Call(<<"glass_pane">>, c) : c \in Connections}] :
     side \in BOOLEAN}

\* an element with two faces: one with the given texture, one that refers to
\* the slot `side`
TwoFaced(id, texture) ==
  Element(id, << [k |-> "north", v |-> Face(PartialUv, texture)],
                 [k |-> "south", v |-> Face(PartialUv, <<"#", "side">>)] >>)

\* models with a face that has no texture, and with one that refers to a slot
\* no model defines
FaceCatalog ==
  << Entry("bare",
           Model(NoStr, Tex(<<Slot("side", LanternPath)>>),
                 Els(<<TwoFaced("bare", NoStr), Box("rest", "side", PartialUv)>>))),
     Entry("dangling",
           Model(NoStr, Tex(<<Slot("side", LanternPath)>>),
                 Els(<<TwoFaced("dangling", <<"#", "missing">>),
                       Box("more", "side", PartialUv)>>))) >>

FaceWorlds ==
  {[blockModels |-> FaceCatalog, blockStates |-> EmptyObj,
    blocks |-> {Call(<<"bare">>, NoStr), Call(<<"dangling">>, NoStr)}]}

Worlds == LanternWorlds \cup DoorWorlds \cup ChainWorlds \cup PaneWorlds \cup FaceWorlds

Revisions == {1, 2, 3}

InitLoader ==
  /\ revision \in Revisions
  /\ \E w \in Worlds :
       /\ blockModels = w.blockModels
       /\ blockStates = w.blockStates
       /\ blocks = w.blocks
  /\ modelCache = EmptyObj
  /\ lastCall = NoCall
  /\ lastRes = Null
  /\ firstRes = EmptyObj
  /\ MergeIdle
  /\ TexIdle
  /\ WorkerIdle
  /\ RenderIdle
  /\ LoadIdle
  /\ RestIdle

\* what the client sees of a call: the last call and, when the call missed the
\* cache for the first time, its result
Returned(call, res, miss) ==
  /\ lastCall' = call
  /\ lastRes' = res
  /\ firstRes' = IF miss /\ ~Has(firstRes, call) THEN Put(firstRes, call, res)
                 ELSE firstRes

\* the loader and its client after a call
LoaderBecomes(call, out) ==
  /\ blockModels' = out.blockModels
  /\ modelCache' = out.modelCache
  /\ Returned(call, out.result, out.miss)

\* getModel(blockName, blockState), src/blockmodelloader.js 72-143
GetModel ==
  /\ revision = 1
  /\ \E b \in blocks :
       LoaderBecomes(b, getModel(blockModels, blockStates, modelCache, b.name, b.state))
  /\ UNCHANGED <<restVars, revision, blockStates, blocks, mergeVars, texVars, workerVars, renderVars, loadVars>>

\* getModel(blockName), src/blockmodelloader.js 372-405
GetModel2 ==
  /\ revision = 2
  /\ \E b \in blocks :
       LoaderBecomes(b, Viewed(getModel2(blockModels, modelCache, TextureMap, b.name)))
  /\ UNCHANGED <<restVars, revision, blockStates, blocks, mergeVars, texVars, workerVars, renderVars, loadVars>>

\* getModel(blockName, variant), src/unnamed/part_000 29-83
GetModel3 ==
  /\ revision = 3
  /\ \E b \in blocks :
       Returned(b, getModel3(blockModels, blockStates, b.name, Join(b.state, ",")), TRUE)
  /\ UNCHANGED <<restVars, revision, blockModels, blockStates, blocks, modelCache,
                 mergeVars, texVars, workerVars, renderVars, loadVars>>

NextLoader == GetModel \/ GetModel2 \/ GetModel3

SpecLoader == InitLoader /\ [][NextLoader]_vars

(***************************************************************************)
(* SpecWorker: addMesh calls on a worker of the first or the third         *)
(* revision.  The first calls getModel(name, metadata), the signature of   *)
(* the first loader; the third calls getModel(name), which the second and  *)
(* the third loader take.                                                  *)
(***************************************************************************)
MaxBlocks == 2

MaxCalls == 2

BareBox(id) == Element(id, <<[k |-> "north", v |-> Face(<< >>, NoStr)]>>)

\* stone has a model; glass_pane has none under its own name; barrier has a
\* face without a texture
WorkerCatalog ==
  PaneCatalog(FALSE)
    \o <<Entry("barrier", Model(NoStr, Absent, Els(<<BareBox("bare")>>)))>>

BlockTypes ==
  << [k |-> 1, v |-> [name |-> <<"stone">>, metadata |-> NoStr]],
     [k |-> 2, v |-> [name |-> <<"glass_pane">>, metadata |-> NoStr]],
     [k |-> 3, v |-> [name |-> <<"barrier">>, metadata |-> NoStr]] >>

\* the blocks of a chunk: air, of a known type, of the unknown type 9
BlockPool == {[type |-> t, position |-> <<t, 2, 3>>] : t \in {0, 1, 2, 3, 9}}

\* a block with no position
Unplaced == [type |-> 1, position |-> NoPosition]

\* the block lists of the messages: every list of placed blocks, and lists
\* with a block that has no position before, after and without a placed one
BlockLists ==
  UNION {[1..n -> BlockPool] : n \in 0..MaxBlocks}
    \cup {<<Unplaced>>}
    \cup {<<Unplaced, block>> : block \in BlockPool}
    \cup {<<block, Unplaced>> : block \in BlockPool}

\* the messages: chunk 0 with any of the block lists, chunk 1 with one block
ChunkData ==
  {[x |-> 0, z |-> 0, blocks |-> b] : b \in BlockLists}
    \cup {[x |-> 1, z |-> 0, blocks |-> <<block>>] : block \in BlockPool}

WorkerReady ==
  /\ worker \in {1, 3}
  /\ revision \in (IF worker = 1 THEN {1} ELSE {2, 3})
  /\ mcData = BlockTypes
  /\ blockModels = WorkerCatalog
  /\ blockStates = EmptyObj
  /\ blocks = {}
  /\ modelCache = EmptyObj
  /\ lastCall = NoCall
  /\ lastRes = Null
  /\ firstRes = EmptyObj
  /\ WorkerStart
  /\ MergeIdle
  /\ TexIdle
  /\ RenderIdle
  /\ LoadIdle

InitWorker ==
  /\ WorkerReady
  /\ RestIdle

WorkerNow ==
  [meshes |-> meshes, scene |-> scene, disposed |-> disposed,
   geometryCache |-> geometryCache, blockModels |-> blockModels,
   modelCache |-> modelCache, outcomes |-> EmptyObj, replaced |-> replaced,
   aborted |-> FALSE, result |-> FALSE, addedAnyMesh |-> FALSE,
   returned |-> "undefined"]

WorkerSets(w, data, recorded) ==
  /\ meshes' = w.meshes
  /\ scene' = w.scene
  /\ disposed' = w.disposed
  /\ geometryCache' = w.geometryCache
  /\ blockModels' = w.blockModels
  /\ modelCache' = w.modelCache
  /\ outcomes' = w.outcomes
  /\ replaced' = w.replaced
  /\ addResult' = w.returned
  /\ lastChunk' = [x |-> data.x, z |-> data.z]
  /\ lastBlocks' = recorded
  /\ calls' = calls + 1
  /\ UNCHANGED <<worker, mcData, revision, blockStates, blocks, lastCall, lastRes,
                 firstRes, mergeVars, texVars, renderVars, loadVars>>

WorkerBecomes(w, data, recorded) ==
  /\ WorkerSets(w, data, recorded)
  /\ UNCHANGED restVars

\* addMesh(data), src/enhancedmockworker.js 138-160
AddMesh ==
  /\ worker = 1
  /\ calls < MaxCalls
  /\ \E data \in ChunkData :
       WorkerBecomes(addMesh(WorkerNow, revision, blockStates, mcData, TextureMap,
                             data, calls + 1),
                     data, lastBlocks)

\* addMesh(data), src/enhancedmockworker.js 615-692
AddMesh3 ==
  /\ worker = 3
  /\ calls < MaxCalls
  /\ \E data \in ChunkData :
       WorkerBecomes(addMesh3(WorkerNow, revision, blockStates, mcData, TextureMap,
                              data, calls + 1),
                     data, lastBlocks)

NextWorker == AddMesh \/ AddMesh3

SpecWorker == InitWorker /\ [][NextWorker]_vars

(***************************************************************************)
(* SpecGroup: addMesh calls on a worker of the first revision, the blocks  *)
(* of the last message kept in lastBlocks.                                 *)
(***************************************************************************)
InitGroup ==
  /\ InitWorker
  /\ worker = 1

\* addMesh(data), src/enhancedmockworker.js 138-160
AddMeshOf ==
  /\ worker = 1
  /\ calls < MaxCalls
  /\ \E data \in ChunkData :
       WorkerBecomes(addMesh(WorkerNow, revision, blockStates, mcData, TextureMap,
                             data, calls + 1),
                     data, data.blocks)

SpecGroup == InitGroup /\ [][AddMeshOf]_vars

(***************************************************************************)
(* SpecRender: getModel calls, each followed by the baking of the model    *)
(* returned: by the first worker with BlockModelRenderer on the first      *)
(* loader, by the third worker on the second and the third loader, and by  *)
(* createBlockMesh.  The catalog has a full cube, a slab with its children *)
(* over two parent levels, a face with uv values of at most 1, a plane of  *)
(* no thickness, models with no elements, and an element with no faces.    *)
(***************************************************************************)
Cuboid(id, from, to, faces) == [Element(id, faces) EXCEPT !.from = from, !.to = to]

Uv(u1, v1, u2, v2) == <<u1 * UVUnit, v1 * UVUnit, u2 * UVUnit, v2 * UVUnit>>

StonePath == <<"minecraft:", "block/", "stone">>

PlanksPath == <<"minecraft:", "block/", "planks">>

SixFaces(uv, slot) ==
  [i \in 1..Len(Sides) |-> [k |-> Sides[i], v |-> Face(uv, <<"#", slot>>)]]

SlabFaces ==
  << [k |-> "up", v |-> Face(FullUv, <<"#", "all">>)],
     [k |-> "north", v |-> Face(Uv(0, 8, 16, 16), <<"#", "side">>)] >>

SolidCatalog(sp) ==
  << Entry("stone", Model(NoStr, Tex(<<Slot("all", StonePath)>>),
                          Els(<<Element("cube", SixFaces(FullUv, "all"))>>))),
     Entry("slab", Model(NoStr, Tex(<<Slot("all", StonePath), Slot("side", StonePath)>>),
                         Els(<<Cuboid("slab", <<0, 0, 0>>, <<16, 8, 16>>, SlabFaces)>>))),
     Entry("planks_slab", Model(sp \o <<"slab">>,
                                Tex(<<Slot("side", PlanksPath)>>), Absent)),
     Entry("waxed_slab", Model(sp \o <<"planks_slab">>,
                               Tex(<<Slot("all", PlanksPath)>>), Absent)),
     Entry("unit", Model(NoStr, Tex(<<Slot("all", StonePath)>>),
                         Els(<<Element("unit", <<[k |-> "up",
                                                   v |-> Face(Uv(0, 0, 1, 1),
                                                              <<"#", "all">>)]>>)>>))) >>

HollowCatalog ==
  << Entry("plane", Model(NoStr, Tex(<<Slot("all", StonePath)>>),
                          Els(<<Cuboid("plane", <<0, 0, 8>>, <<16, 16, 8>>,
                                       <<[k |-> "north",
                                          v |-> Face(FullUv, <<"#", "all">>)]>>)>>))),
     Entry("empty", Model(NoStr, Tex(<<Slot("all", StonePath)>>), Els(<< >>))),
     Entry("none", Model(NoStr, Tex(<<Slot("all", StonePath)>>), Absent)),
     Entry("faceless", Model(NoStr, Tex(<<Slot("all", StonePath)>>),
                             Els(<<[Element("faceless", EmptyObj)
                                      EXCEPT !.hasFaces = FALSE]>>))) >>

CallsOf(catalog) == {Call(catalog[i].k, NoStr) : i \in 1..Len(catalog)}

\* a model of two boxes of three different extents, and its block state with
\* the rotation of the default variant
TurnedCatalog ==
  << Entry("wedge", Model(NoStr, Tex(<<Slot("all", StonePath)>>),
                          Els(<<Cuboid("foot", <<0, 0, 0>>, <<16, 8, 4>>, SlabFaces),
                                Cuboid("step", <<0, 8, 0>>, <<8, 16, 2>>, SlabFaces)>>))) >>

TurnedStates(x, y) ==
  << Entry("wedge", <<[k |-> NoStr,
                       v |-> [model |-> <<"minecraft:", "block/", "wedge">>,
                              x |-> x, y |-> y]]>>) >>

Turns == {0, 90, 180}

TurnedWorlds ==
  {[blockModels |-> TurnedCatalog, blockStates |-> TurnedStates(x, y),
    blocks |-> CallsOf(TurnedCatalog)] : x \in Turns, y \in Turns}

RenderWorlds ==
  {[blockModels |-> c, blockStates |-> EmptyObj, blocks |-> CallsOf(c)] :
     c \in {SolidCatalog(sp) : sp \in Spellings} \cup {HollowCatalog, FaceCatalog}}
    \cup TurnedWorlds

\* mappingData and the names it is stored under, src/unnamed/part_002 392-418
AtlasRect(x, y) ==
  [x |-> x, y |-> y, width |-> UVUnit \div 16, height |-> UVUnit \div 16]

AtlasKeys(name, rect) ==
  << [k |-> <<name>>, v |-> rect],
     [k |-> <<"block/", name>>, v |-> rect],
     [k |-> <<"minecraft:", "block/", name>>, v |-> rect] >>

Atlas ==
  AtlasKeys("stone", AtlasRect(UVUnit \div 4, UVUnit \div 2))
    \o AtlasKeys("planks", AtlasRect(UVUnit \div 16, 0))
    \o AtlasKeys("lantern", AtlasRect(UVUnit \div 8, 0))

InitRender ==
  /\ baker \in {1, 3}
  /\ revision \in (IF baker = 1 THEN {1} ELSE {2, 3})
  /\ \E w \in RenderWorlds :
       /\ blockModels = w.blockModels
       /\ blockStates = w.blockStates
       /\ blocks = w.blocks
  /\ modelCache = EmptyObj
  /\ lastCall = NoCall
  /\ lastRes = Null
  /\ firstRes = EmptyObj
  /\ uvMapping = Atlas
  /\ bakedOf = NoBake
  /\ geometry = NoGeometry
  /\ material = PlainMaterial
  /\ MergeIdle
  /\ TexIdle
  /\ WorkerIdle
  /\ LoadIdle
  /\ RestIdle

Baked(by, made, with) ==
  /\ bakedOf' = [call |-> lastCall, res |-> lastRes, by |-> by]
  /\ geometry' = made
  /\ material' = with
  /\ UNCHANGED <<restVars, baker, uvMapping, mergeVars, texVars, loaderVars, workerVars, loadVars>>

\* addMeshForBlockType, src/enhancedmockworker.js 96-97, on the model returned
BakeBlock ==
  /\ baker = 1
  /\ lastCall # NoCall
  /\ lastRes.status \in {"ok", "null"}
  /\ Baked("createGeometryFromModel",
           createGeometryFromModel(lastRes.status = "ok", lastRes.model),
           createMaterial(uvMapping, lastCall.name))

\* addMesh, src/enhancedmockworker.js 640-657, on the model returned
BakeBlock3 ==
  /\ baker = 3
  /\ lastCall # NoCall
  /\ lastRes.status = "ok"
  /\ Baked("createGeometryFromModel",
           createGeometryFromModel3(lastRes.model,
                                    DefaultState3(blockStates, lastCall.name)),
           createMaterial3(uvMapping, TextureName3(lastRes.model, lastCall.name)))

\* createBlockMesh, src/blockmodelrenderer.js 14-55, on the model returned
CreateBlockMesh ==
  /\ baker = 1
  /\ lastCall # NoCall
  /\ lastRes.status \in {"ok", "null"}
  /\ Baked("createBlockMesh",
           createBlockMesh(lastRes.status = "ok", lastRes.model).geometry,
           PlainMaterial)

NextRender == GetModel \/ GetModel2 \/ GetModel3 \/ BakeBlock \/ BakeBlock3 \/ CreateBlockMesh

SpecRender == InitRender /\ [][NextRender]_vars

(***************************************************************************)
(* SpecLoad: initialize of the worker and loadBlockModels of the loader it *)
(* makes, one step per awaited read.  A file of the assets directory is    *)
(* missing, or holds well-formed JSON, bare or between the tags            *)
(* <blocks_models.json> ... the repository's data is written with, or      *)
(* holds text that is not JSON.  initialize is called with a directory.    *)
(***************************************************************************)
FileKinds == {"json", "wrapped", "malformed", "missing"}

\* the reads of loadBlockModels: src/blockmodelloader.js 15, 23, 31 (and 314,
\* 322, 330), one after the other; src/unnamed/part_000 15-18, two at once
ReadsOf(rev) ==
  IF rev = 3 THEN <<"blocks_models.json", "blocks_states.json">>
  ELSE <<"blocks_models.json", "blocks_states.json", "blocks_textures.json">>

\* JSON.parse of what was read: after the tags are cut off (16-20, 24-28,
\* 32-36), or of the file as it is (part_000 16-17)
Parses(rev, kind) ==
  IF rev = 3 THEN kind = "json" ELSE kind \in {"json", "wrapped"}

\* one awaited fs.readFile with its JSON.parse
ReadOutcome(rev, kind) ==
  IF kind = "missing" THEN "ENOENT"
  ELSE IF ~Parses(rev, kind) THEN "SyntaxError"
  ELSE "parsed"

RemoveAt(seq, i) == SubSeq(seq, 1, i - 1) \o SubSeq(seq, i + 1, Len(seq))

InitLoad ==
  /\ files \in [{"blocks_models.json", "blocks_states.json", "blocks_textures.json"}
                  -> FileKinds]
  /\ loadRev \in Revisions
  /\ pending = << >>
  /\ tables = {}
  /\ loadResult = "none"
  /\ initResult = "none"
  /\ MergeIdle
  /\ TexIdle
  /\ LoaderIdle
  /\ WorkerIdle
  /\ RenderIdle
  /\ RestIdle

LoadBecomes(left, read, result, returned) ==
  /\ pending' = left
  /\ tables' = read
  /\ loadResult' = result
  /\ initResult' = returned
  /\ UNCHANGED <<restVars, files, loadRev, mergeVars, texVars, loaderVars, workerVars, renderVars>>

\* initialize up to its await, src/enhancedmockworker.js 19-22, 180-184, 413-419
Initialize ==
  /\ loadResult = "none"
  /\ LoadBecomes(ReadsOf(loadRev), {}, "pending", "none")

AfterRead(left, name, outcome) ==
  LoadBecomes(left,
              IF outcome = "parsed" THEN tables \cup {name} ELSE tables,
              IF outcome = "parsed" \/ loadResult = "rejected" THEN loadResult
              ELSE "rejected",
              "none")

\* the next read of the first two revisions: a failure goes to the catch at
\* 66-69, which throws it again, and the later files are not read
ReadNext ==
  /\ loadRev \in {1, 2}
  /\ loadResult = "pending"
  /\ pending # << >>
  /\ AfterRead(IF ReadOutcome(loadRev, files[Head(pending)]) = "parsed"
               THEN Tail(pending) ELSE << >>,
               Head(pending), ReadOutcome(loadRev, files[Head(pending)]))

\* one of the reads of Promise.all, in any order: the first failure rejects
\* the whole, the other read still ends
ReadAny ==
  /\ loadRev = 3
  /\ loadResult \in {"pending", "rejected"}
  /\ \E i \in 1..Len(pending) :
       AfterRead(RemoveAt(pending, i), pending[i],
                 ReadOutcome(loadRev, files[pending[i]]))

\* `return true` at 65, `return this.blockModels` at part_000 22
LoadReturns ==
  /\ loadResult = "pending"
  /\ pending = << >>
  /\ LoadBecomes(pending, tables, "resolved", "none")

\* initialize past its await: `return true`, or the error thrown again at 26
\* or not caught at all (third worker)
InitializeReturns ==
  /\ loadResult \in {"resolved", "rejected"}
  /\ initResult = "none"
  /\ LoadBecomes(pending, tables, loadResult, loadResult)

NextLoad == Initialize \/ ReadNext \/ ReadAny \/ LoadReturns \/ InitializeReturns

SpecLoad == InitLoad /\ [][NextLoad]_vars

(***************************************************************************)
(* SpecBake: createGeometryFromModel of BlockModelRenderer called with a   *)
(* model whose elements are well formed, have a `from` of two numbers or   *)
(* no `to`, or are null.                                                   *)
(***************************************************************************)
MaxBaked == 3

BakedPool ==
  { Cuboid("low", <<0, 0, 0>>, <<16, 8, 16>>, SlabFaces),
    Cuboid("high", <<0, 8, 0>>, <<16, 16, 16>>, SlabFaces),
    Cuboid("short", <<0, 0>>, <<16, 16, 16>>, SlabFaces),
    Cuboid("open", <<0, 0, 0>>, << >>, SlabFaces),
    NullElement }

BakedLists == UNION {[1..n -> BakedPool] : n \in 0..MaxBaked}

InitBake ==
  /\ baker = 1
  /\ uvMapping = EmptyObj
  /\ bakedOf = NoBake
  /\ geometry = NoGeometry
  /\ material = PlainMaterial
  /\ MergeIdle
  /\ TexIdle
  /\ LoaderIdle
  /\ WorkerIdle
  /\ LoadIdle
  /\ RestIdle

\* createGeometryFromModel(model), src/blockmodelrenderer.js 57-217; the
\* function keeps nothing from one call to the next: a behaviour is one call
CreateGeometryFromModel ==
  /\ bakedOf = NoBake
  /\ \E elements \in BakedLists :
       /\ bakedOf' = [call |-> NoCall, by |-> "direct",
                      res |-> Ok(Model(NoStr, Absent, Els(elements)))]
       /\ geometry' = createGeometryFromModel(TRUE, Model(NoStr, Absent, Els(elements)))
  /\ UNCHANGED <<restVars, baker, uvMapping, material, mergeVars, texVars, loaderVars,
                 workerVars, loadVars>>

SpecBake == InitBake /\ [][CreateGeometryFromModel]_vars

(***************************************************************************)
(* The message queue of the mock worker, src/index.js 88-208.  JavaScript  *)
(* runs one call at a time: a postMessage call can only begin while        *)
(* another one runs if it is made from inside processMessage.              *)
(***************************************************************************)
MaxPosted == 3

\* the messages a client posts: an add_mesh message with its blocks, an
\* add_mesh message without a blocks array, and a message of another type
MessageKinds ==
  { [type |-> "add_mesh", hasBlocks |-> TRUE],
    [type |-> "add_mesh", hasBlocks |-> FALSE],
    [type |-> "other", hasBlocks |-> FALSE] }

Message(n, kind) == [n |-> n, type |-> kind.type, hasBlocks |-> kind.hasBlocks]

\* processMessage(data), src/index.js 150-196: `for (const block of blocks)`
\* (157) throws a TypeError when data.blocks is not iterable
processMessage(data) ==
  IF data.type # "add_mesh" THEN "ignored"
  ELSE IF ~data.hasBlocks THEN "TypeError"
  ELSE "meshes"

InitQueue ==
  /\ QueueIdle
  /\ ViewIdle
  /\ ExportIdle
  /\ MergeIdle
  /\ TexIdle
  /\ LoaderIdle
  /\ WorkerIdle
  /\ RenderIdle
  /\ LoadIdle

otherThanQueue ==
  <<mergeVars, texVars, loaderVars, workerVars, renderVars, loadVars, viewVars,
    exportVars>>

\* postMessage(data) called while no call runs, src/index.js 198-201
PostMessage ==
  /\ running.at = "idle"
  /\ Len(posted) < MaxPosted
  /\ \E kind \in MessageKinds :
       /\ posted' = Append(posted, Message(Len(posted) + 1, kind))
       /\ messageQueue' = Append(messageQueue, Message(Len(posted) + 1, kind))
  /\ IF processingQueue
       THEN UNCHANGED <<processingQueue, running>>
       ELSE /\ processingQueue' = TRUE
            /\ running' = [at |-> "while", message |-> 0]
  /\ UNCHANGED <<processed, otherThanQueue>>

\* postMessage(data) called from inside processMessage: processingQueue is
\* true, the call pushes and returns, src/index.js 199-200
PostMessageInside ==
  /\ running.at = "processMessage"
  /\ Len(posted) < MaxPosted
  /\ processingQueue
  /\ \E kind \in MessageKinds :
       /\ posted' = Append(posted, Message(Len(posted) + 1, kind))
       /\ messageQueue' = Append(messageQueue, Message(Len(posted) + 1, kind))
  /\ UNCHANGED <<processingQueue, running, processed, otherThanQueue>>

\* one turn of the loop up to the call of processMessage, src/index.js 202-204
Shift ==
  /\ running.at = "while"
  /\ Len(messageQueue) > 0
  /\ running' = [at |-> "processMessage", message |-> Head(messageQueue).n]
  /\ messageQueue' = Tail(messageQueue)
  /\ processed' = Append(processed, Head(messageQueue))
  /\ UNCHANGED <<processingQueue, posted, otherThanQueue>>

\* processMessage returns and the loop goes on, src/index.js 204, 202
ProcessMessageReturns ==
  /\ running.at = "processMessage"
  /\ processMessage(posted[running.message]) # "TypeError"
  /\ running' = [at |-> "while", message |-> 0]
  /\ UNCHANGED <<messageQueue, processingQueue, posted, processed, otherThanQueue>>

\* processMessage throws: postMessage has no try, the exception leaves it at
\* line 204 and line 206 is not run
ProcessMessageThrows ==
  /\ running.at = "processMessage"
  /\ processMessage(posted[running.message]) = "TypeError"
  /\ running' = NotRunning
  /\ UNCHANGED <<messageQueue, processingQueue, posted, processed, otherThanQueue>>

\* the queue is empty: the loop ends and postMessage returns, src/index.js
\* 202, 206-207
LoopEnds ==
  /\ running.at = "while"
  /\ Len(messageQueue) = 0
  /\ processingQueue' = FALSE
  /\ running' = NotRunning
  /\ UNCHANGED <<messageQueue, posted, processed, otherThanQueue>>

NextQueue ==
  \/ PostMessage
  \/ PostMessageInside
  \/ Shift
  \/ ProcessMessageReturns
  \/ ProcessMessageThrows
  \/ LoopEnds

SpecQueue == InitQueue /\ [][NextQueue]_vars

(***************************************************************************)
(* SpecView: generateMeshes of the world view, src/unnamed/part_003 24-95  *)
(* (src/enhancedworldview.js 24-92 scans in the same way), on a worker of  *)
(* the first or the third revision.  Numbers are integers; a string is the *)
(* sequence of its characters.                                             *)
(***************************************************************************)
\* `const scanRange = 32`, reduced
scanRange == 1

\* the bound 256 of the loop over y, reduced
ScanHeight == 2

\* Math.floor(a / b) for b > 0: the integer q with q <= a / b < q + 1
MathFloorDiv(a, b) ==
  CHOOSE q \in (0 - Abs(a) - 1)..Abs(a) : q * b <= a /\ a < (q + 1) * b

\* a / b cut towards zero
MathTruncDiv(a, b) == IF a < 0 THEN 0 - (Abs(a) \div b) ELSE a \div b

\* the chunk index with Math.trunc in the place of Math.floor
ChunkOfTrunc(w) == MathTruncDiv(w, 16)

\* Math.floor(worldX / 16), src/unnamed/part_003 40-41
ChunkOf(w) == MathFloorDiv(w, 16)

Decimals == <<"0", "1", "2", "3", "4", "5", "6", "7", "8", "9">>

RECURSIVE DigitsOf(_)
DigitsOf(n) ==
  IF n < 10 THEN <<Decimals[n + 1]>>
  ELSE DigitsOf(n \div 10) \o <<Decimals[(n % 10) + 1]>>

\* String(n) for an integer n
NumberToString(n) == IF n < 0 THEN <<"-">> \o DigitsOf(0 - n) ELSE DigitsOf(n)

IsDecimal(c) == \E d \in 1..10 : Decimals[d] = c

DecimalValue(c) == (CHOOSE d \in 1..10 : Decimals[d] = c) - 1

\* the value of the decimal digits a string begins with, after acc
RECURSIVE LeadingValue(_, _)
LeadingValue(str, acc) ==
  IF str = << >> \/ ~IsDecimal(Head(str)) THEN acc
  ELSE LeadingValue(Tail(str), acc * 10 + DecimalValue(Head(str)))

\* parseInt(n): the number is turned into a string and its sign and leading
\* digits are read back
parseInt(n) ==
  IF Head(NumberToString(n)) = "-"
  THEN 0 - LeadingValue(Tail(NumberToString(n)), 0)
  ELSE LeadingValue(NumberToString(n), 0)

\* Number(str) for the decimal notation of an integer
Number(str) ==
  IF Head(str) = "-" THEN 0 - LeadingValue(Tail(str), 0) ELSE LeadingValue(str, 0)

\* `${block.chunkX},${block.chunkZ}`
ChunkKey(block) == NumberToString(block.chunkX) \o <<",">> \o NumberToString(block.chunkZ)

Comma(key) == CHOOSE i \in 1..Len(key) : key[i] = ","

\* key.split(',').map(Number)
SplitKey(key) ==
  <<Number(SubSeq(key, 1, Comma(key) - 1)), Number(SubSeq(key, Comma(key) + 1, Len(key)))>>

\* the block pushed for a block of the world, src/unnamed/part_003 40-50
ScannedBlock(chunkX, chunkZ, type, worldX, worldY, worldZ) ==
  [chunkX |-> chunkX, chunkZ |-> chunkZ, type |-> type,
   position |-> <<parseInt(worldX - (chunkX * 16)), parseInt(worldY),
                  parseInt(worldZ - (chunkZ * 16))>>]

\* the x, y and z of the n-th turn of the three loops, src/unnamed/part_003 30-32
ScanWidth == 2 * scanRange + 1

ScanTurns == ScanWidth * ScanHeight * ScanWidth

TurnX(n) == ((n - 1) \div (ScanHeight * ScanWidth)) - scanRange

TurnY(n) == ((n - 1) \div ScanWidth) % ScanHeight

TurnZ(n) == ((n - 1) % ScanWidth) - scanRange

\* the worlds: stone everywhere, and stone and air in turn
WorldKinds == {"stone", "mixed"}

\* world.getBlock(new Vec3(x, y, z)).type
BlockTypeAt(kind, x, y, z) == IF kind = "mixed" /\ (x + y + z) % 2 = 1 THEN 0 ELSE 1

Centers == {[x |-> x, z |-> z] : x \in {0 - 16, 0, 16}, z \in {0 - 16, 0}}

\* the turns of the loop over blocks that meet a new key
NewKeyAt(found) ==
  {i \in 1..Len(found) : \A j \in 1..(i - 1) : ChunkKey(found[j]) # ChunkKey(found[i])}

\* the n-th smallest member of a set of numbers
Nth(numbers, n) == CHOOSE i \in numbers : Cardinality({j \in numbers : j <= i}) = n

SameKey(found, key) == SelectSeq(found, LAMBDA block : ChunkKey(block) = key)

\* the grouping by chunk, src/unnamed/part_003 62-69: the keys in the order
\* they are first met, each with its blocks in the order of the array
GroupByKey(found) ==
  [n \in 1..Cardinality(NewKeyAt(found)) |->
     [k |-> ChunkKey(found[Nth(NewKeyAt(found), n)]),
      v |-> SameKey(found, ChunkKey(found[Nth(NewKeyAt(found), n)]))]]

InitView ==
  /\ WorkerReady
  /\ QueueIdle
  /\ ExportIdle
  /\ center \in Centers
  /\ world \in WorldKinds
  /\ viewAt = "idle"
  /\ scanAt = 0
  /\ scanned = << >>
  /\ chunkBlocks = << >>
  /\ meshCount = 0

otherThanView ==
  <<mergeVars, texVars, loaderVars, workerVars, renderVars, loadVars, queueVars,
    exportVars>>

\* generateMeshes() up to the first turn of the loops
GenerateMeshes ==
  /\ viewAt = "idle"
  /\ viewAt' = "scan"
  /\ scanAt' = 1
  /\ UNCHANGED <<center, world, scanned, chunkBlocks, meshCount, otherThanView>>

ScanPush(type, worldX, worldY, worldZ) ==
  scanned' = IF type # 0
             THEN Append(scanned, ScannedBlock(ChunkOf(worldX), ChunkOf(worldZ), type,
                                               worldX, worldY, worldZ))
             ELSE scanned

\* one turn of the loops: the block is awaited and pushed if it is not air,
\* src/unnamed/part_003 33-57
ScanBlock ==
  /\ viewAt = "scan"
  /\ scanAt <= ScanTurns
  /\ ScanPush(BlockTypeAt(world, center.x + TurnX(scanAt), TurnY(scanAt),
                          center.z + TurnZ(scanAt)),
              center.x + TurnX(scanAt), TurnY(scanAt), center.z + TurnZ(scanAt))
  /\ scanAt' = scanAt + 1
  /\ UNCHANGED <<center, world, viewAt, chunkBlocks, meshCount, otherThanView>>

\* the loops are over: the blocks are grouped by chunk, src/unnamed/part_003 62-69
GroupChunks ==
  /\ viewAt = "scan"
  /\ scanAt > ScanTurns
  /\ chunkBlocks' = GroupByKey(scanned)
  /\ viewAt' = "chunks"
  /\ UNCHANGED <<center, world, scanAt, scanned, meshCount, otherThanView>>

\* the message of a chunk, src/unnamed/part_003 76-83
ChunkMessage(entry) ==
  [x |-> SplitKey(entry.k)[1], z |-> SplitKey(entry.k)[2], blocks |-> entry.v]

WorkerAddMesh(data) ==
  IF worker = 1
  THEN addMesh(WorkerNow, revision, blockStates, mcData, TextureMap, data, calls + 1)
  ELSE addMesh3(WorkerNow, revision, blockStates, mcData, TextureMap, data, calls + 1)

Counted(w, data) ==
  /\ WorkerSets(w, data, lastBlocks)
  /\ meshCount' = IF w.returned = "true" THEN meshCount + 1 ELSE meshCount

\* one turn of the loop over the chunks: worker.addMesh and `if (result)
\* meshCount++`, src/unnamed/part_003 75-86
AddChunkMesh ==
  /\ viewAt = "chunks"
  /\ chunkBlocks # << >>
  /\ Counted(WorkerAddMesh(ChunkMessage(Head(chunkBlocks))),
             ChunkMessage(Head(chunkBlocks)))
  /\ chunkBlocks' = Tail(chunkBlocks)
  /\ UNCHANGED <<center, world, viewAt, scanAt, scanned, queueVars, exportVars>>

\* `return meshCount`, src/unnamed/part_003 89
GenerateMeshesReturns ==
  /\ viewAt = "chunks"
  /\ chunkBlocks = << >>
  /\ viewAt' = "done"
  /\ UNCHANGED <<center, world, scanAt, scanned, chunkBlocks, meshCount, otherThanView>>

NextView ==
  \/ GenerateMeshes
  \/ ScanBlock
  \/ GroupChunks
  \/ AddChunkMesh
  \/ GenerateMeshesReturns

SpecView == InitView /\ [][NextView]_vars

(***************************************************************************)
(* SpecExport: exportGLTF calls, src/index.js 385-417 (src/unnamed/        *)
(* part_002 159-194 is the same but for the exporter's options).  The      *)
(* exporter answers a parse call by calling onDone or onError later, or    *)
(* never; a promise keeps the first resolve or reject it gets.             *)
(***************************************************************************)
MaxExports == 2

FileNames == {"a.gltf", "b.gltf"}

\* resolve(value) or reject(error) on a promise
Settle(promise, outcome) == IF promise = "pending" THEN outcome ELSE promise

\* clearTimeout(timeout)
clearTimeout(timer) == IF timer = "set" THEN "cleared" ELSE timer

InitExport ==
  /\ exports = << >>
  /\ MergeIdle
  /\ TexIdle
  /\ LoaderIdle
  /\ WorkerIdle
  /\ RenderIdle
  /\ LoadIdle
  /\ QueueIdle
  /\ ViewIdle

otherThanExport ==
  <<mergeVars, texVars, loaderVars, workerVars, renderVars, loadVars, queueVars,
    viewVars>>

ExportBecomes(i, export) ==
  /\ exports' = [exports EXCEPT ![i] = export]
  /\ UNCHANGED otherThanExport

\* exportGLTF(scene, fileName) up to its return, src/index.js 385-417: the
\* timer is set and exporter.parse is called; when `new GLTFExporter()` or
\* parse throws, the catch clears the timer and rejects
ExportGLTF ==
  /\ Len(exports) < MaxExports
  /\ \E fileName \in FileNames, thrown \in BOOLEAN :
       exports' = Append(exports,
                         IF thrown
                         THEN [fileName |-> fileName, promise |-> "rejected",
                               timeout |-> "cleared", at |-> "end"]
                         ELSE [fileName |-> fileName, promise |-> "pending",
                               timeout |-> "set", at |-> "parse"])
  /\ UNCHANGED otherThanExport

\* the timer's callback after 30 seconds, src/index.js 387-389
Timeout(i) ==
  /\ i \in 1..Len(exports)
  /\ exports[i].timeout = "set"
  /\ ExportBecomes(i, [exports[i] EXCEPT !.timeout = "fired",
                                         !.promise = Settle(@, "rejected")])

\* onDone up to its first await, src/index.js 394-396
OnDone(i) ==
  /\ i \in 1..Len(exports)
  /\ exports[i].at = "parse"
  /\ ExportBecomes(i, [exports[i] EXCEPT !.timeout = clearTimeout(@), !.at = "mkdir"])

\* fs.mkdir is done and onDone goes on to JSON.stringify and fs.writeFile,
\* src/index.js 396-400
MkdirResolves(i) ==
  /\ i \in 1..Len(exports)
  /\ exports[i].at = "mkdir"
  /\ ExportBecomes(i, [exports[i] EXCEPT !.at = "writeFile"])

\* fs.mkdir fails: the await throws inside the async callback, whose own
\* promise is rejected; nothing catches it
MkdirRejects(i) ==
  /\ i \in 1..Len(exports)
  /\ exports[i].at = "mkdir"
  /\ ExportBecomes(i, [exports[i] EXCEPT !.at = "unhandled"])

\* fs.writeFile is done: resolve(fileName), src/index.js 401
WriteFileResolves(i) ==
  /\ i \in 1..Len(exports)
  /\ exports[i].at = "writeFile"
  /\ ExportBecomes(i, [exports[i] EXCEPT !.promise = Settle(@, "resolved"),
                                         !.at = "end"])

\* JSON.stringify throws or fs.writeFile fails, src/index.js 397-400
WriteFileRejects(i) ==
  /\ i \in 1..Len(exports)
  /\ exports[i].at = "writeFile"
  /\ ExportBecomes(i, [exports[i] EXCEPT !.at = "unhandled"])

\* onError, src/index.js 403-406
OnError(i) ==
  /\ i \in 1..Len(exports)
  /\ exports[i].at = "parse"
  /\ ExportBecomes(i, [exports[i] EXCEPT !.timeout = clearTimeout(@),
                                         !.promise = Settle(@, "rejected"),
                                         !.at = "end"])

NextExport ==
  \/ ExportGLTF
  \/ \E i \in 1..MaxExports : Timeout(i)
  \/ \E i \in 1..MaxExports : OnDone(i)
  \/ \E i \in 1..MaxExports : MkdirResolves(i)
  \/ \E i \in 1..MaxExports : MkdirRejects(i)
  \/ \E i \in 1..MaxExports : WriteFileResolves(i)
  \/ \E i \in 1..MaxExports : WriteFileRejects(i)
  \/ \E i \in 1..MaxExports : OnError(i)

\* a timer that is set fires, and a file system call ends, one way or the
\* other; the exporter need not call back
FairExport ==
  \A i \in 1..MaxExports :
    /\ WF_vars(Timeout(i))
    /\ WF_vars(MkdirResolves(i) \/ MkdirRejects(i))
    /\ WF_vars(WriteFileResolves(i) \/ WriteFileRejects(i))

SpecExport == InitExport /\ [][NextExport]_vars /\ FairExport

(***************************************************************************)
(* Claims on mergeModels (SpecMerge).                                      *)
(***************************************************************************)
MergedBy(v) == mOut[v]

\* C1: a child with a non-empty elements list ends up with exactly its own
\* elements, a child with absent or empty elements with exactly the parent's,
\* in every revision of mergeModels.
C1_ElementsOverride ==
  \A v \in mDone :
    IF mChild.hasElements /\ mChild.elements # << >>
    THEN ElementsOf(MergedBy(v)) = ElementsOf(mChild)
    ELSE ElementsOf(MergedBy(v)) = ElementsOf(mParent)

SharedSlots == Keys(TexturesOrEmpty(mParent)) \cap Keys(TexturesOrEmpty(mChild))

ValuesOfSlot(r, merged, k) ==
  {Get(m.textures, r) :
     m \in {x \in {mParent, mChild} \cup (IF r = k THEN {} ELSE {merged}) :
              Has(TexturesOrEmpty(x), r)}}

RECURSIVE ChainCycles(_, _, _)
ChainCycles(tex, value, visited) ==
  IF ~StartsWithHash(value.s) THEN FALSE
  ELSE LET r == Tail(value.s)
       IN IF ~(Has(tex, r) /\ Truthy(Get(tex, r))) THEN FALSE
          ELSE IF r \in visited THEN TRUE
          ELSE ChainCycles(tex, Get(tex, r), visited \cup {r})

SelfReferential(i) == ChainCycles(textures, textures[i].v, {})

Called == lastCall # NoCall

\* the parent chain of the model `name`, read through cleanTexturePath, comes
\* back to a model it has passed
RECURSIVE ChainIsCyclic(_, _, _)
ChainIsCyclic(catalog, name, passed) ==
  IF ~Has(catalog, name) THEN FALSE
  ELSE IF name \in passed THEN TRUE
  ELSE IF Get(catalog, name).parent = NoStr THEN FALSE
  ELSE ChainIsCyclic(catalog, cleanTexturePath(Get(catalog, name).parent),
                     passed \cup {name})

\* C2: a getModel call on a model whose parent chain is cyclic ends in an
\* error: it does not return a model or null, and it does return.
C2_CycleEndsInError ==
  (Called /\ ChainIsCyclic(blockModels, cleanTexturePath(lastCall.name), {}))
    => lastRes.status \notin {"ok", "null", "noreturn"}

\* the variant the block-state table holds for the last call: the one under
\* the exact state string, else the one under the empty string
VariantOfCall ==
  SelectVariant(Get(blockStates, cleanTexturePath(lastCall.name)),
                Join(lastCall.state, ","))

\* C3: when the block-state table has an entry for the block, getModel of
\* src/blockmodelloader.js 72-143 returns the resolution of the model that the
\* selected variant names, whatever other models the catalog holds.
C3_VariantModelResolved ==
  (/\ Called
   /\ revision = 1
   /\ Has(blockStates, cleanTexturePath(lastCall.name))
   /\ VariantOfCall.model # NoStr
   /\ Has(blockModels, cleanTexturePath(VariantOfCall.model)))
    => lastRes = processModel(blockModels,
                              Get(blockModels, cleanTexturePath(VariantOfCall.model)), 1)

\* the models of the parent chain of `name`, the model itself first
RECURSIVE ChainOf(_, _, _)
ChainOf(catalog, name, passed) ==
  IF ~Has(catalog, name) \/ name \in passed THEN << >>
  ELSE <<Get(catalog, name)>>
         \o IF Get(catalog, name).parent = NoStr THEN << >>
            ELSE ChainOf(catalog, cleanTexturePath(Get(catalog, name).parent),
                         passed \cup {name})

\* every `#slot` value of the chain names a slot that a model of the chain
\* defines with a literal path
RefsDefined(chain) ==
  \A i \in 1..Len(chain) : \A j \in 1..Len(chain[i].textures) :
    LET value == chain[i].textures[j].v.s
    IN StartsWithHash(value)
         => \E n \in 1..Len(chain) :
              /\ Has(chain[n].textures, Tail(value))
              /\ \A m \in 1..Len(chain) :
                   Has(chain[m].textures, Tail(value))
                     => LET def == Get(chain[m].textures, Tail(value)).s
                        IN def # NoStr /\ ~StartsWithHash(def)

IsLiteralPath(v) == ~v.chars /\ v.s # NoStr /\ ~StartsWithHash(v.s)

\* the catalog model a call of the second revision resolves
Model2Name == Lookup2(blockModels, cleanTexturePath(lastCall.name))

\* C5: when the parent chain of a model defines every slot that a `#slot`
\* value of the chain refers to, every value of the texture map of the
\* resolved model is a literal path.
C5_NoDanglingReference ==
  \A name \in Keys(blockModels) :
    (/\ Called
     /\ lastRes.status = "ok"
     /\ lastCall.state = NoStr
     /\ name = (IF revision = 1
                THEN ModelNameFor(blockModels, blockStates, lastCall.name, lastCall.state)
                ELSE IF revision = 2 THEN Model2Name
                ELSE lastCall.name)
     /\ ~Has(blockStates, lastCall.name)
     /\ ~ChainIsCyclic(blockModels, name, {})
     /\ RefsDefined(ChainOf(blockModels, name, {})))
      => \A i \in 1..Len(lastRes.model.textures) :
           IsLiteralPath(lastRes.model.textures[i].v)

\* C7: a getModel call returns what the same call returned when it first
\* missed the cache, whatever calls were made in between.
C7_SameCallSameModel ==
  (Called /\ Has(firstRes, lastCall)) => lastRes = Get(firstRes, lastCall)

KnownState == <<"half=top", "facing=north">>

UnknownState == KnownState \o <<"unknown_prop=x">>

\* C10: a call with the state half=top, facing=north, unknown_prop=x, on a
\* table that has a variant for half=top, facing=north, returns the
\* resolution of that variant's model.
C10_UnknownPropertyIgnored ==
  (/\ Called
   /\ revision \in {1, 3}
   /\ lastCall.state = UnknownState
   /\ Has(blockStates, lastCall.name)
   /\ Has(Get(blockStates, lastCall.name), Join(KnownState, ",")))
    => LET variant == Get(Get(blockStates, lastCall.name), Join(KnownState, ","))
       IN IF revision = 1
          THEN lastRes = processModel(blockModels,
                                      Get(blockModels, cleanTexturePath(variant.model)), 1)
          ELSE lastRes = getModel3(blockModels, blockStates, lastCall.name,
                                   Join(KnownState, ","))

(***************************************************************************)
(* Claims on addMesh (SpecWorker).                                         *)
(***************************************************************************)
RegisteredMeshes == {meshes[i].v : i \in 1..Len(meshes)}

Disposed(mesh) ==
  /\ [kind |-> "geometry", id |-> mesh.geometry] \in disposed
  /\ [kind |-> "material", id |-> mesh.material] \in disposed

\* C8: the scene holds exactly the meshes of the registry, one per identity,
\* and a mesh that was replaced under its identity is out of the scene with
\* its geometry and material disposed of.
C8_SceneIsRegistry ==
  /\ scene = RegisteredMeshes
  /\ \A i, j \in 1..Len(meshes) : meshes[i].k = meshes[j].k => i = j
  /\ Cardinality(scene) = Len(meshes)
  /\ \A old \in replaced : old \notin scene /\ Disposed(old)

\* an identity has been registered twice, next to another identity
C8_Witness ==
  /\ replaced # {}
  /\ Len(meshes) >= 2
  /\ calls = MaxCalls

\* the mesh of block type t that the last addMesh call registered, if any
RegisteredByLastCall(t) ==
  LET meshId == MeshId(lastChunk.x, lastChunk.z, t)
  IN Has(meshes, meshId) /\ Get(meshes, meshId).obj.call = calls

\* what getModel answers for the block type t
ModelStatus(t) ==
  LoaderCall(revision, blockModels, blockStates, modelCache, TextureMap,
             Get(mcData, t).name, NoStr).result.status

\* C9: of the groups of an addMesh call, one whose type is unknown or has no
\* model registers no mesh, and every group whose type has a model registers
\* one.
C9_NoModelNoMesh ==
  \A t \in Keys(outcomes) :
    IF ~Has(mcData, t) THEN ~RegisteredByLastCall(t)
    ELSE /\ ModelStatus(t) = "null" => ~RegisteredByLastCall(t)
         /\ ModelStatus(t) = "ok" => RegisteredByLastCall(t)

(***************************************************************************)
(* Claims on the faces of a resolved model (SpecLoader).                   *)
(***************************************************************************)
\* a face of the model has no texture, or refers to a slot the model lacks
HasMissingTexture(model) ==
  \E i \in 1..Len(model.elements) : \E j \in 1..Len(model.elements[i].faces) :
    LET face == model.elements[i].faces[j].v
    IN \/ ~face.hasTexture
       \/ StartsWithHash(face.texture.s)
            /\ ~Has(TexturesOrEmpty(model), Tail(face.texture.s))

\* the last call named a parentless catalog model that has such a face
MissingTextureCall ==
  /\ Called
  /\ Has(blockModels, lastCall.name)
  /\ Get(blockModels, lastCall.name).parent = NoStr
  /\ HasMissingTexture(Get(blockModels, lastCall.name))

\* C11: a getModel call on a model with a face that has no texture, or whose
\* texture refers to a slot with no entry, does not throw: it returns the
\* model with every element and every face of the catalog model.
C11_MissingTextureRecoverable ==
  MissingTextureCall =>
    /\ lastRes.status = "ok"
    /\ Len(lastRes.model.elements) = Len(Get(blockModels, lastCall.name).elements)
    /\ \A i \in 1..Len(lastRes.model.elements) :
         Len(lastRes.model.elements[i].faces)
           = Len(Get(blockModels, lastCall.name).elements[i].faces)

(***************************************************************************)
(* Claims on the lantern and the glass pane (SpecLoader).                  *)
(***************************************************************************)
\* the ids of the elements of the model last returned
ReturnedIds == {lastRes.model.elements[i].id : i \in 1..Len(lastRes.model.elements)}

\* the ids of the elements of a catalog model
IdsOf(name) ==
  {Get(blockModels, name).elements[i].id :
     i \in 1..Len(Get(blockModels, name).elements)}

LanternCall(state) ==
  Called /\ lastCall.name = <<"lantern">> /\ lastCall.state = <<state>>

\* C16: for the lantern, the model returned has the elements of the hanging
\* template when the state is hanging=true, and those of the standing
\* template (or the lantern model's own), never the hanging one's, when it is
\* hanging=false.
C16_LanternTemplateByState ==
  /\ LanternCall("hanging=true") =>
       /\ lastRes.status = "ok"
       /\ ReturnedIds = IdsOf(<<"template_hanging_lantern">>)
  /\ LanternCall("hanging=false") =>
       /\ lastRes.status = "ok"
       /\ ReturnedIds \cap IdsOf(<<"template_hanging_lantern">>) = {}

\* the directions a pane state connects
Connected(state) ==
  {i \in 1..Len(state) :
     state[i] \in {"north=true", "east=true", "south=true", "west=true"}}

\* how many of the elements returned are copies of an element of the model `name`
Copies(name) ==
  Cardinality({i \in 1..Len(lastRes.model.elements) :
                 lastRes.model.elements[i].id \in IdsOf(name)})

\* the second loader was asked for a glass pane with its connections, and has
\* both templates
PaneCall ==
  /\ Called
  /\ revision = 2
  /\ cleanTexturePath(lastCall.name) = <<"glass_pane">>
  /\ lastCall.state # NoStr
  /\ Has(blockModels, <<"glass_pane_post">>)
  /\ Has(blockModels, <<"glass_pane_side">>)

\* C17: the glass-pane builder returns the post elements and one copy of the
\* side-panel elements for each connected direction.
C17_OneSidePerConnection ==
  PaneCall =>
    /\ lastRes.status = "ok"
    /\ Copies(<<"glass_pane_post">>) = Len(Get(blockModels, <<"glass_pane_post">>).elements)
    /\ Copies(<<"glass_pane_side">>)
         = Cardinality(Connected(lastCall.state))
             * Len(Get(blockModels, <<"glass_pane_side">>).elements)


(***************************************************************************)
(* Claims on the baked geometry (SpecRender).                              *)
(***************************************************************************)
HasBaked == bakedOf # NoBake /\ bakedOf.res.status = "ok"

NoElements(model) == ~model.hasElements \/ model.elements = << >>

\* what the baker of the state makes of a model
BakerMakes(model) ==
  IF baker = 3 THEN createGeometryFromModel3(model, NoVariant)
  ELSE createGeometryFromModel(TRUE, model)

BakedNoElements == HasBaked /\ NoElements(bakedOf.res.model)

\* the four uv corners of a side of a box
Corners(box, side) ==
  {<<box.uv[8 * side + 2 * c + 1], box.uv[8 * side + 2 * c + 2]>> : c \in 0..3}

WholeTexture == {<<0, 0>>, <<UVUnit, 0>>, <<0, UVUnit>>, <<UVUnit, UVUnit>>}

\* one box, of the extent the baker gives the element from [0,0,0] to
\* [16,16,16], every side of it mapped to the whole of the texture
IsFullCube(made) ==
  /\ Len(made) = 1
  /\ made[1].min = BakerMakes(FullCube)[1].min
  /\ made[1].max = BakerMakes(FullCube)[1].max
  /\ \A side \in 0..(Len(Sides) - 1) : Corners(made[1], side) = WholeTexture

\* C12: a model returned with no elements, absent or an empty list, is baked
\* as one full cube: one box of the extent of an element from [0,0,0] to
\* [16,16,16], each of its six sides mapped to uv [0,0,16,16], the whole texture
C12_ZeroElementFallback == BakedNoElements => IsFullCube(geometry)


BakedElements ==
  /\ HasBaked
  /\ bakedOf.by = "createGeometryFromModel"
  /\ ~NoElements(bakedOf.res.model)
  /\ \A i \in 1..Len(bakedOf.res.model.elements) : bakedOf.res.model.elements[i].hasFaces

\* c / 16 - 0.5
Local(c) == c * (LenUnit \div 16) - (LenUnit \div 2)

PlacedAt(box, element) ==
  /\ box.min = [a \in 1..3 |-> Local(element.from[a])]
  /\ box.max = [a \in 1..3 |-> Local(element.to[a])]

\* C13: every element of a baked model is a box with its corner `from` at
\* from / 16 - 0.5 and its corner `to` at to / 16 - 0.5 on each axis, so the
\* element from [0,0,0] to [16,16,16] spans -0.5 to 0.5
C13_CoordinateConversion ==
  BakedElements =>
    /\ Len(geometry) = Len(bakedOf.res.model.elements)
    /\ \A i \in 1..Len(geometry) : PlacedAt(geometry[i], bakedOf.res.model.elements[i])


\* the model of the catalog a call names, when it is written with its own
\* elements and no parent
Written(call) == Get(blockModels, call.name)

BakedWritten ==
  /\ BakedElements
  /\ Has(blockModels, bakedOf.call.name)
  /\ Written(bakedOf.call).parent = NoStr
  /\ Written(bakedOf.call).hasElements

\* the texture path a face's `#slot` names in a texture map, << >> if none
PathOf(slots, face) ==
  IF face.hasTexture /\ Len(face.texture.s) = 2 /\ Head(face.texture.s) = "#"
       /\ Has(slots, Tail(face.texture.s))
  THEN Get(slots, Tail(face.texture.s)).s
  ELSE NoStr

\* where the texture transform of the material takes a uv of the geometry
Effective(with, c) ==
  << with.offset[1] + (c[1] * with.repeat[1]) \div UVUnit,
     with.offset[2] + (c[2] * with.repeat[2]) \div UVUnit >>

\* atlasRect.x + (u / 16) * atlasRect.width, the same for v
AtlasCorners(rect, uv) ==
  { << rect.x + ((u \div 16) * rect.width) \div UVUnit,
       rect.y + ((v \div 16) * rect.height) \div UVUnit >> :
      u \in {uv[1], uv[3]}, v \in {uv[2], uv[4]} }

MappedToAtlas(box, faceName, face, rect) ==
  {Effective(material, c) : c \in Corners(box, SideIndex(faceName))}
    = AtlasCorners(rect, face.uv)

FaceOnAtlas(box, slots, f) ==
  (Len(f.v.uv) = 4 /\ IsSide(f.k) /\ Has(uvMapping, PathOf(slots, f.v)))
    => MappedToAtlas(box, f.k, f.v, Get(uvMapping, PathOf(slots, f.v)))

\* C14: every face with a uv rectangle and a texture that has an atlas
\* rectangle is drawn from the corners x + (u / 16) * width, y + (v / 16) *
\* height of that rectangle, the texture transform of the material counted in
C14_AtlasUvMapping ==
  BakedWritten =>
    /\ Len(geometry) = Len(Written(bakedOf.call).elements)
    /\ \A i \in 1..Len(geometry) :
         \A j \in 1..Len(Written(bakedOf.call).elements[i].faces) :
           FaceOnAtlas(geometry[i], Written(bakedOf.call).textures,
                       Written(bakedOf.call).elements[i].faces[j])


\* the quads of a box: four vertices, eight uv numbers each
Quads(box) == Len(box.uv) \div 8

FacesOf(element) == {j \in 1..Len(element.faces) : IsSide(element.faces[j].k)}

\* C15: a baked element has a quad for a side only if the side is a key of
\* its faces: an element with k faces is a box of k quads
C15_AbsentFacesCulled ==
  BakedElements =>
    /\ Len(geometry) = Len(bakedOf.res.model.elements)
    /\ \A i \in 1..Len(geometry) :
         Quads(geometry[i]) = Cardinality(FacesOf(bakedOf.res.model.elements[i]))


\* the model of the catalog whose elements a name inherits: the nearest model
\* of its parent chain that has elements
RECURSIVE Declaring(_, _)
Declaring(name, hops) ==
  IF Get(blockModels, name).hasElements \/ Get(blockModels, name).parent = NoStr
       \/ hops = 0
  THEN Get(blockModels, name)
  ELSE Declaring(<<Get(blockModels, name).parent[Len(Get(blockModels, name).parent)]>>,
                 hops - 1)

\* a chain without a cycle has at most as many models as the catalog
Catalogued(call) == Declaring(call.name, Len(blockModels))

BakedCatalogued ==
  /\ BakedElements
  /\ Has(blockModels, bakedOf.call.name)
  /\ Catalogued(bakedOf.call).hasElements
  /\ Len(Catalogued(bakedOf.call).elements) = Len(geometry)

\* the corners of a catalog uv rectangle, each number divided by 16
ScaledOnce(uv) == {<<u \div 16, v \div 16>> : u \in {uv[1], uv[3]}, v \in {uv[2], uv[4]}}

FaceScaledOnce(box, f) ==
  (Len(f.v.uv) = 4 /\ IsSide(f.k)) => Corners(box, SideIndex(f.k)) = ScaledOnce(f.v.uv)

\* C19: every uv number written for a face of a baked element is the number
\* of the catalog divided by 16, for an element of the model itself and for one
\* inherited over any number of parents, for numbers above 1 and at most 1
C19_UvScaledOnce ==
  BakedCatalogued =>
    \A i \in 1..Len(geometry) :
      \A j \in 1..Len(Catalogued(bakedOf.call).elements[i].faces) :
        FaceScaledOnce(geometry[i], Catalogued(bakedOf.call).elements[i].faces[j])


(***************************************************************************)
(* Claims on the textures of the faces of a returned model (SpecRender).   *)
(***************************************************************************)
\* the value of a slot over the parent chain of a name: the child's first
RECURSIVE ChainSlot(_, _, _)
ChainSlot(name, slot, hops) ==
  IF Get(blockModels, name).hasTextures /\ Has(Get(blockModels, name).textures, slot)
  THEN Get(Get(blockModels, name).textures, slot)
  ELSE IF Get(blockModels, name).parent = NoStr \/ hops = 0 THEN Lit(NoStr)
  ELSE ChainSlot(<<Get(blockModels, name).parent[Len(Get(blockModels, name).parent)]>>,
                 slot, hops - 1)

IsSlotRef(value) == ~value.chars /\ Len(value.s) = 2 /\ Head(value.s) = "#"

\* the texture a returned face stands for: its own value, or, while that is
\* still a `#slot`, the slot's value in the textures of the returned model
TextureOf(model, face) ==
  IF IsSlotRef(face.texture) /\ model.hasTextures
       /\ Has(model.textures, Tail(face.texture.s))
  THEN Get(model.textures, Tail(face.texture.s))
  ELSE face.texture

\* two values that are strings naming one texture, whatever the namespace and
\* the directory they are written with
SameTexture(a, b) ==
  /\ ~a.chars /\ ~b.chars
  /\ a.s # NoStr /\ b.s # NoStr
  /\ a.s[Len(a.s)] = b.s[Len(b.s)]

ReturnedElements ==
  /\ lastCall # NoCall
  /\ lastRes.status = "ok"
  /\ Has(blockModels, lastCall.name)
  /\ Catalogued(lastCall).hasElements
  /\ lastRes.model.hasElements
  /\ Len(lastRes.model.elements) = Len(Catalogued(lastCall).elements)

FaceResolved(model, face, written) ==
  (written.hasTexture /\ IsSlotRef(written.texture)
     /\ ChainSlot(lastCall.name, Tail(written.texture.s), Len(blockModels)) # Lit(NoStr))
    => SameTexture(TextureOf(model, face),
                   ChainSlot(lastCall.name, Tail(written.texture.s), Len(blockModels)))

\* C20: every face of a returned element, inherited ones included, has the
\* texture its `#slot` names in the texture map merged over the whole parent
\* chain, the child's value of a slot before the parent's
C20_FaceTexturesFromMergedMap ==
  ReturnedElements =>
    \A i \in 1..Len(lastRes.model.elements) :
      \A j \in 1..Len(lastRes.model.elements[i].faces) :
        FaceResolved(lastRes.model, lastRes.model.elements[i].faces[j].v,
                     Catalogued(lastCall).elements[i].faces[j].v)


(***************************************************************************)
(* Claims on loadBlockModels and initialize (SpecLoad).                    *)
(***************************************************************************)
DefinitionFiles == {"blocks_models.json", "blocks_states.json", "blocks_textures.json"}

\* a file that is missing or is not well-formed
Unusable(name) == files[name] \in {"missing", "malformed"}

LoadSettled == loadResult \in {"resolved", "rejected"}

\* C18: loadBlockModels rejects whenever one of the three definition files is
\* missing or does not parse, resolves only after all three have been read
\* and parsed, and initialize ends as loadBlockModels did
C18_LoadFailsOnAnyFile ==
  /\ (LoadSettled /\ \E name \in DefinitionFiles : Unusable(name))
       => loadResult = "rejected"
  /\ loadResult = "resolved" => tables = DefinitionFiles
  /\ initResult # "none" => initResult = loadResult


(***************************************************************************)
(* Claims on the state key of getModel (SpecLoader).                       *)
(***************************************************************************)
PairsOf(call) == {call.state[i] : i \in 1..Len(call.state)}

\* two calls for one block whose property maps hold the same pairs
SamePairs(c1, c2) ==
  /\ c1.name = c2.name
  /\ Len(c1.state) = Len(c2.state)
  /\ PairsOf(c1) = PairsOf(c2)

Reordered(c1, c2) == SamePairs(c1, c2) /\ c1.state # c2.state

\* C21: two property maps with the same pairs in a different insertion order
\* build the same state string, select the same variant, so that their calls
\* return the same model, and use the same cache entry
C21_CanonicalStateKey ==
  revision = 1 =>
    \A c1 \in blocks : \A c2 \in blocks :
      (Reordered(c1, c2) /\ Has(firstRes, c1) /\ Has(firstRes, c2))
        => /\ Join(c1.state, ",") = Join(c2.state, ",")
           /\ CacheKey(c1.name, c1.state) = CacheKey(c2.name, c2.state)
           /\ Get(firstRes, c1) = Get(firstRes, c2)


(***************************************************************************)
(* Claims on the catalog under getModel calls (SpecLoader).                *)
(***************************************************************************)
\* C22: no getModel call, whatever the path it takes, changes an entry of
\* blockModels or of blockStates
C22_CatalogReadOnly ==
  [][blockModels' = blockModels /\ blockStates' = blockStates]_vars


(***************************************************************************)
(* Claims on malformed elements (SpecBake).                                *)
(***************************************************************************)
WellFormed(element) ==
  element # NullElement /\ Len(element.from) = 3 /\ Len(element.to) = 3

BakedDirectly == bakedOf.by = "direct"

\* the well-formed elements of the model baked, in their order
Remaining == SelectSeq(bakedOf.res.model.elements, WellFormed)

\* C23: a model with elements that have no or a wrong-length from or to, or
\* whose processing throws, is baked as the boxes of exactly its other
\* elements, in their order, and as the default cube only when none is left
C23_MalformedElementsSkipped ==
  BakedDirectly =>
    IF Remaining = << >> THEN geometry = DefaultGeometry
    ELSE geometry = [i \in 1..Len(Remaining) |-> ElementGeometry(Remaining[i])]

\* a model of a null, a malformed and a well-formed element has been baked as
\* one box
C23_Witness ==
  /\ BakedDirectly
  /\ Len(bakedOf.res.model.elements) = 3
  /\ bakedOf.res.model.elements[1] = NullElement
  /\ ~WellFormed(bakedOf.res.model.elements[2])
  /\ WellFormed(bakedOf.res.model.elements[3])
  /\ Len(geometry) = 1


(***************************************************************************)
(* Claims on the rotation of the whole model (SpecRender).                 *)
(***************************************************************************)
BakedWithState ==
  /\ BakedElements
  /\ baker = 3
  /\ Has(blockStates, bakedOf.call.name)

\* C24: the rotation of the block state is applied to the merged geometry of
\* all elements, the turn about X before the turn about Y
C24_RotationXThenY ==
  BakedWithState =>
    geometry = WithStateRotationXFirst(MergedGeometry3(bakedOf.res.model),
                                       DefaultState3(blockStates, bakedOf.call.name))


(***************************************************************************)
(* Claims on the geometries of the scene (SpecWorker).                     *)
(***************************************************************************)
GeometryDisposed(id) == [kind |-> "geometry", id |-> id] \in disposed

\* C25: after any sequence of addMesh calls no mesh of the scene has a
\* geometry that was disposed of, and no geometry of geometryCache was
\* disposed of
C25_CachedGeometryUsable ==
  /\ \A mesh \in scene : ~GeometryDisposed(mesh.geometry)
  /\ \A key \in geometryCache : ~GeometryDisposed(key)


(***************************************************************************)
(* Claims on the message queue (SpecQueue).                                *)
(***************************************************************************)
IsPrefix(s, t) == Len(s) <= Len(t) /\ \A i \in 1..Len(s) : s[i] = t[i]

\* C26: the messages handed to processMessage are the posted ones, each once
\* and in posting order, and whenever no postMessage call runs every posted
\* message has been processed, the queue is empty and processingQueue is
\* false
C26_QueueDrained ==
  /\ IsPrefix(processed, posted)
  /\ running.at = "idle" =>
       /\ processed = posted
       /\ messageQueue = <<>>
       /\ processingQueue = FALSE


(***************************************************************************)
(* Claims on the grouping of addMesh (SpecGroup).                          *)
(***************************************************************************)
\* the blocks of the last message that have a position and are not air
Eligible == SelectSeq(lastBlocks, LAMBDA b : b.position # NoPosition /\ b.type # 0)

GroupOf(t) == {i \in 1..Len(Eligible) : Eligible[i].type = t}

\* the block types with a mesh registered by the last call
RegisteredTypes ==
  {t \in {lastBlocks[i].type : i \in 1..Len(lastBlocks)} : RegisteredByLastCall(t)}

MeshOf(t) == Get(meshes, MeshId(lastChunk.x, lastChunk.z, t))

\* the instances of the meshes registered by the last call
InstancesRegistered ==
  UNION {{<<t, i>> : i \in 1..Len(MeshOf(t).instances)} : t \in RegisteredTypes}

\* getModel throws for the block type t
Throws(t) == ModelStatus(t) \notin {"ok", "null"}

\* what is common to the claim and its amended form: a registered mesh is
\* the mesh of a group and has one instance per block of the group, placed at
\* the block's position in the chunk, and addMesh returns true exactly when a
\* mesh was registered
GroupsAsMeshes ==
  /\ \A t \in RegisteredTypes :
       /\ Has(mcData, t)
       /\ Len(MeshOf(t).instances) = Cardinality(GroupOf(t))
       /\ \A i \in 1..Len(MeshOf(t).instances) :
            \E j \in GroupOf(t) :
              MeshOf(t).instances[i] =
                <<lastChunk.x * 16 + Eligible[j].position[1], Eligible[j].position[2],
                  lastChunk.z * 16 + Eligible[j].position[3]>>
  /\ addResult = "true" <=> RegisteredTypes # {}

SolidSeen ==
  {<<center.x + TurnX(n), TurnY(n), center.z + TurnZ(n)>> :
     n \in {m \in 1..Min(scanAt - 1, ScanTurns) :
              BlockTypeAt(world, center.x + TurnX(m), TurnY(m), center.z + TurnZ(m)) # 0}}

\* chunk * 16 + local, as the worker computes it
Replaced(block) ==
  <<block.chunkX * 16 + block.position[1], block.position[2],
    block.chunkZ * 16 + block.position[3]>>

InChunk(block) == block.position[1] \in 0..15 /\ block.position[3] \in 0..15

\* the positions of the instances of the meshes of the scene
InstancePositions ==
  UNION {{mesh.instances[i] : i \in 1..Len(mesh.instances)} : mesh \in scene}

\* the blocks of the chunks not yet sent
Unsent == UNION {{chunkBlocks[c].v[i] : i \in 1..Len(chunkBlocks[c].v)} :
                   c \in 1..Len(chunkBlocks)}

\* C27: every block generateMeshes pushes has local x and z in 0..15 and a
\* chunk index such that chunk * 16 + local is the world coordinate it was
\* found at, y unchanged; the chunk indices read back from the key are those
\* of the blocks; and the instance positions the worker has set, with those
\* of the chunks still to send, are the world positions of the blocks found
C27_WorldPositionRoundTrip ==
  /\ \A i \in 1..Len(scanned) : InChunk(scanned[i])
  /\ {Replaced(scanned[i]) : i \in 1..Len(scanned)} = SolidSeen
  /\ Len(scanned) = Cardinality(SolidSeen)
  /\ \A c \in 1..Len(chunkBlocks) : \A i \in 1..Len(chunkBlocks[c].v) :
       /\ SplitKey(chunkBlocks[c].k)[1] = chunkBlocks[c].v[i].chunkX
       /\ SplitKey(chunkBlocks[c].k)[2] = chunkBlocks[c].v[i].chunkZ
  /\ viewAt \in {"chunks", "done"} =>
       InstancePositions \cup {Replaced(block) : block \in Unsent} = SolidSeen

\* generateMeshes has returned after sending more than one chunk, and the
\* scene has an instance at negative x and z above the ground layer
C27_Witness ==
  /\ viewAt = "done"
  /\ calls > 1
  /\ \E p \in InstancePositions : p[1] < 0 /\ p[3] < 0 /\ p[2] > 0


(***************************************************************************)
(* Claims on the slots of one resolveTextureReferences call (SpecTex).     *)
(***************************************************************************)
\* what resolveReference gives for the slot at position i resolved alone
Alone(i) == resolveReference(textures, TextureMap, textures[i].v, {}, 1).v

\* C28: each slot resolved by a resolveTextureReferences call has the result
\* that resolving it alone gives, so that neither the slots before it nor
\* their order change it, and two resolved slots with the same raw value, or
\* with values that alone lead to the same result, have the same result
C28_SlotsResolveAlike ==
  /\ \A i \in 1..tIdx : Get(tState.resolved, textures[i].k) = Alone(i)
  /\ \A i, j \in 1..tIdx :
       (textures[i].v = textures[j].v \/ Alone(i) = Alone(j))
         => Get(tState.resolved, textures[i].k) = Get(tState.resolved, textures[j].k)


(***************************************************************************)
(* Claims on exportGLTF (SpecExport).                                      *)
(***************************************************************************)
Exported(i) == i \in 1..Len(exports)

Settled(i) == Exported(i) /\ exports[i].promise # "pending"

\* a settled promise stays as it is
SettledOnce(i) ==
  (Exported(i) /\ exports[i].promise # "pending") => exports'[i].promise = exports[i].promise

\* the timer is not left set when the promise was settled by another path
\* than the timeout, or when onDone has run
TimerCleared(i) ==
  (Exported(i) /\ exports[i].at # "parse") => exports[i].timeout # "set"

\* C29: the promise of every exportGLTF call is resolved or rejected in the
\* end, whichever way the export goes; once settled it does not change; and
\* the timer is cleared on every path but the timeout
C29_ExportSettles ==
  /\ \A i \in 1..MaxExports : Exported(i) ~> Settled(i)
  /\ [][\A i \in 1..MaxExports : SettledOnce(i)]_vars
  /\ [](\A i \in 1..MaxExports : TimerCleared(i))

====
